---- MODULE Spec2Model ----
(***************************************************************************)
(* The TSFC kernel cache of firedrake/tsfc_interface.py: the two-tier      *)
(* (in-memory table + on-disk store) cache of TSFCKernel, the collective   *)
(* lookup / compile / publish sequence that the processes of a             *)
(* communicator run for every sub-form of compile_form, and the per-form   *)
(* cache of compile_form.                                                  *)
(*                                                                         *)
(* Processes are single threaded; the file system is shared by all of      *)
(* them.  Every file-system call and every collective call is one step.    *)
(***************************************************************************)
EXTENDS Integers, Sequences, FiniteSets, TLC

\* Number of compile_form calls made in a run, over all communicators.
MaxCalls == 3

(***************************************************************************)
(* Processes and communicators.  COMM_WORLD holds the three processes,     *)
(* COMM_SUB is a sub-communicator holding process 3 alone, so process 3 is *)
(* rank 2 of COMM_WORLD and the root of COMM_SUB.                          *)
(***************************************************************************)
Procs == {1, 2, 3}
COMM_NULL == 0
COMM_WORLD == 1
COMM_SUB == 2
Comms == {COMM_WORLD, COMM_SUB}
Members(c) == IF c = COMM_WORLD THEN <<1, 2, 3>> ELSE <<3>>
MemberSet(c) == {Members(c)[i] : i \in 1..Len(Members(c))}
PG == {x \in Procs \X Comms : x[1] \in MemberSet(x[2])}
rank(p, c) == (CHOOSE i \in 1..Len(Members(c)) : Members(c)[i] = p) - 1
Root(c) == Members(c)[1]
\* a handle that does not tell the communicators apart
py2f_world(c) == COMM_WORLD

py2f(c) == c
getpid(p) == p

(***************************************************************************)
(* Forms, their sub-forms and the digests of the sub-forms.  A digest is   *)
(* the sequence of its hexadecimal digits.  F1 is an unsplit form, F2 a    *)
(* mixed form with two blocks.  dA and dE share a shard directory, dA and  *)
(* dB share the file name inside different shard directories.              *)
(***************************************************************************)
None == -1
dA == <<10, 11, 1>>
dB == <<10, 12, 1>>
dE == <<10, 11, 2>>
Digests == {dA, dB, dE}
Forms == {"F1", "F2"}
split_form(F) ==
  IF F = "F1"
  THEN << [idx |-> <<None, None>>, key |-> dA] >>
  ELSE << [idx |-> <<0, 0>>, key |-> dB], [idx |-> <<1, 1>>, key |-> dE] >>

(***************************************************************************)
(* The external generator, one outcome per integral batch of the sub-form: *)
(* a kernel, no kernel (None), or an error raised by the generator.        *)
(***************************************************************************)
Batches(d) ==
  IF d = dA THEN << [out |-> "kernel", itype |-> 1, coeffs |-> <<0, 1>>],
                    [out |-> "none",   itype |-> 2, coeffs |-> <<>>] >>
  ELSE IF d = dB THEN << [out |-> "kernel", itype |-> 1, coeffs |-> <<0>>],
                         [out |-> "kernel", itype |-> 2, coeffs |-> <<1, 0>>] >>
  ELSE << [out |-> "kernel", itype |-> 1, coeffs |-> <<0>>],
          [out |-> "raise",  itype |-> 2, coeffs |-> <<>>] >>

\* local coefficient number n -> global number, as number_map[n + 1]
number_map(d) == IF d = dA THEN <<0, 1>> ELSE IF d = dB THEN <<2, 5>> ELSE <<1>>

\* the name of the kernel of batch b of the sub-form with digest d
kernel_name(d, b) == (d[2] * 16 + d[3]) * 10 + b

\* a lowering loop that swallows the generator's error and keeps what it built
RECURSIVE lower_batches_swallow(_, _, _)
lower_batches_swallow(d, b, kernels) ==
  IF b > Len(Batches(d)) THEN [exc |-> "none", kernels |-> kernels]
  ELSE LET B == Batches(d)[b] IN
       IF B.out = "raise" THEN [exc |-> "none", kernels |-> kernels]
       ELSE IF B.out = "none" THEN lower_batches_swallow(d, b + 1, kernels)
       ELSE lower_batches_swallow(d, b + 1,
              Append(kernels, [name |-> kernel_name(d, b),
                               integral_type |-> B.itype,
                               coefficient_numbers |-> B.coeffs]))

\* a lowering loop that appends what construct_kernel returned, None included
RECURSIVE lower_batches_keep_none(_, _, _)
lower_batches_keep_none(d, b, kernels) ==
  IF b > Len(Batches(d)) THEN [exc |-> "none", kernels |-> kernels]
  ELSE LET B == Batches(d)[b] IN
       IF B.out = "raise" THEN [exc |-> "GeneratorError", kernels |-> <<>>]
       ELSE lower_batches_keep_none(d, b + 1,
              Append(kernels, [name |-> IF B.out = "none" THEN None ELSE kernel_name(d, b),
                               integral_type |-> B.itype,
                               coefficient_numbers |-> B.coeffs]))

RECURSIVE lower_batches(_, _, _)
lower_batches(d, b, kernels) ==
  IF b > Len(Batches(d)) THEN [exc |-> "none", kernels |-> kernels]
  ELSE LET B == Batches(d)[b] IN
       IF B.out = "raise" THEN [exc |-> "GeneratorError", kernels |-> <<>>]
       ELSE IF B.out = "none" THEN lower_batches(d, b + 1, kernels)
       ELSE lower_batches(d, b + 1,
              Append(kernels, [name |-> kernel_name(d, b),
                               integral_type |-> B.itype,
                               coefficient_numbers |-> B.coeffs]))

compile_local_form(d) == lower_batches(d, 1, <<>>)

\* TSFCKernel.__init__: the KernelInfo tuple built from the generator's kernels
KernelInfos(d, tree) ==
  [k \in 1..Len(tree) |->
     [kernel |-> tree[k].name,
      integral_type |-> tree[k].integral_type,
      coefficient_map |-> [n \in 1..Len(tree[k].coefficient_numbers) |->
                             number_map(d)[tree[k].coefficient_numbers[n] + 1]]]]

NoObj == [kernels |-> <<>>, key |-> [digest |-> <<>>]]

(***************************************************************************)
(* pickle and gzip.  A pickled TSFCKernel is the token sequence            *)
(*   len(key), key..., #kernels, (kernel, integral_type, #map, map...)...  *)
(* and a file holds a gzip member (fmt "gzip") around it, or is one of the *)
(* files gzip cannot read.                                                 *)
(***************************************************************************)
RECURSIVE FlatKernels(_)
FlatKernels(ks) ==
  IF ks = <<>> THEN <<>>
  ELSE <<Head(ks).kernel, Head(ks).integral_type, Len(Head(ks).coefficient_map)>>
       \o Head(ks).coefficient_map \o FlatKernels(Tail(ks))

pickle_dump(obj) ==
  <<Len(obj.key.digest)>> \o obj.key.digest \o <<Len(obj.kernels)>> \o FlatKernels(obj.kernels)

RECURSIVE ParseKernels(_, _, _)
ParseKernels(b, at, n) ==
  IF n = 0 THEN [ok |-> at = Len(b) + 1, kernels |-> <<>>]
  ELSE IF at + 2 > Len(b) \/ at + 2 + b[at + 2] > Len(b)
       THEN [ok |-> FALSE, kernels |-> <<>>]
       ELSE LET rest == ParseKernels(b, at + 3 + b[at + 2], n - 1) IN
            [ok |-> rest.ok,
             kernels |-> << [kernel |-> b[at], integral_type |-> b[at + 1],
                             coefficient_map |-> SubSeq(b, at + 3, at + 2 + b[at + 2])] >>
                         \o rest.kernels]

\* a reader that is one token short on every coefficient map
pickle_loads_short_map(b) ==
  IF b = <<>> THEN [exc |-> "EOFError", obj |-> NoObj]
  ELSE IF b[1] < 0 \/ b[1] + 2 > Len(b) THEN [exc |-> "UnpicklingError", obj |-> NoObj]
  ELSE LET ks == ParseKernels(b, b[1] + 3, b[b[1] + 2]) IN
       IF ~ks.ok THEN [exc |-> "UnpicklingError", obj |-> NoObj]
       ELSE [exc |-> "none",
             obj |-> [kernels |-> [k \in 1..Len(ks.kernels) |->
                                     [ks.kernels[k] EXCEPT !.coefficient_map =
                                        SubSeq(@, 1, Len(@) - 1)]],
                      key |-> [digest |-> SubSeq(b, 2, b[1] + 1)]]]

pickle_loads(b) ==
  IF b = <<>> THEN [exc |-> "EOFError", obj |-> NoObj]
  ELSE IF b[1] < 0 \/ b[1] + 2 > Len(b) THEN [exc |-> "UnpicklingError", obj |-> NoObj]
  ELSE LET ks == ParseKernels(b, b[1] + 3, b[b[1] + 2]) IN
       IF ~ks.ok THEN [exc |-> "UnpicklingError", obj |-> NoObj]
       ELSE [exc |-> "none",
             obj |-> [kernels |-> ks.kernels, key |-> [digest |-> SubSeq(b, 2, b[1] + 1)]]]

\* gzip.open(path, 'rb').read()
gzip_read(file) ==
  IF file.fmt = "gzip" THEN [exc |-> "none", data |-> file.data]
  ELSE IF file.fmt = "bad_deflate" THEN [exc |-> "zlib.error", data |-> <<>>]
  ELSE IF file.fmt = "partial" THEN [exc |-> "EOFError", data |-> <<>>]
  ELSE [exc |-> "OSError", data |-> <<>>]

(***************************************************************************)
(* Paths below the cache root: shard directory, file name, and the pid of  *)
(* the temporary file "<name>_p<pid>.tmp" (0 for the final file).          *)
(***************************************************************************)
CacheRoot == <<>>
shard_of(key) == SubSeq(key, 1, 2)
disk_key_of(key) == SubSeq(key, 3, Len(key))
\* a reader that slices the digest one character early: key[:1], key[1:]
read_filepath_short_shard(key) ==
  [shard |-> SubSeq(key, 1, 1), name |-> SubSeq(key, 2, Len(key)), tmp |-> 0]

\* _read_from_disk: shard, disk_key = key[:2], key[2:]
read_filepath(key) == [shard |-> SubSeq(key, 1, 2), name |-> SubSeq(key, 3, Len(key)), tmp |-> 0]
\* a writer that names the file by the whole digest in the shard directory
filepath_whole_key(key) == [shard |-> shard_of(key), name |-> key, tmp |-> 0]

\* _cache_store: shard, disk_key = key[:2], key[2:]
filepath(key) == [shard |-> shard_of(key), name |-> disk_key_of(key), tmp |-> 0]

\* a writer that opens the final path itself
tempfile_in_place(key, pid) == filepath(key)

tempfile(key, pid) == [shard |-> shard_of(key), name |-> disk_key_of(key), tmp |-> pid]

\* the keys of the in-memory table
\* a lookup that asks the table for the digest alone, the key the stores use
MemKeyLookup_digest(key, c) == [digest |-> key]

MemKeyLookup(key, c) == [digest |-> key, comm |-> py2f(c)]
MemKeyStore(key, c) == [digest |-> key]
MemKeyLoad(key, c) == [digest |-> key]
MemGet(m, k) == IF k \in DOMAIN m THEN m[k] ELSE NoObj
\* a table with room for one entry: a store drops what was there
MemPut_one_slot(m, k, v) == [x \in {k} |-> v]

MemPut(m, k, v) == [x \in (DOMAIN m) \cup {k} |-> IF x = k THEN v ELSE m[x]]
setdefault(m, k, v) == IF k \in DOMAIN m THEN m ELSE MemPut(m, k, v)

FilePut(fs, path, content) ==
  [x \in (DOMAIN fs) \cup {path} |-> IF x = path THEN content ELSE fs[x]]
FileRename(fs, src, dst) ==
  [x \in ((DOMAIN fs) \ {src}) \cup {dst} |-> IF x = dst THEN fs[src] ELSE fs[x]]

SomeVal(b) == [some |-> TRUE, bytes |-> b]
NoneVal == [some |-> FALSE, bytes |-> <<>>]

VARIABLES
  pc,       \* pc[p]: where process p is in compile_form
  cur,      \* cur[p]: the call p is in: communicator, form, sub-form, kernels so far, object
  mem,      \* mem[p]: TSFCKernel._cache of process p
  fcache,   \* fcache[p, c, F]: form._cache["firedrake_kernels"] of the live instance of F
  ret,      \* ret[p, c]: what the last compile_form call of p on c returned or raised
  files,    \* the files below the cache root
  dirs,     \* the directories that exist: the cache root and shard directories
  chan,     \* chan[p, c]: broadcasts of the root of c that p has not received yet
  bar,      \* bar[p, c]: p's state in the barrier of c
  calls,    \* calls[c]: the compile_form calls made on c, in program order
  pos,      \* pos[p, c]: how many of calls[c] p has started
  runs,     \* runs[p, c, d]: how often p ran compile_local_form for d on c
  fstouch,  \* the (process, communicator) pairs that made a file-system call
  pub,      \* pub[c, d]: the call in which the root of c renamed the file of d into
            \* place (0: never), and whether the barrier of that publish is complete
  kin,      \* the argument lists handed to the function under check
  kout,     \* what it returned for them (<<>>: not called yet)
  fobj,     \* form._cache["firedrake_kernels"] of the objects: object, key, tuple
  kcache,   \* the TSFCKernel cache of a single process: digest and kernels stored
  fhist,    \* the compile_form calls the single process made, with what each did
  extops    \* the external operators built so far: extops[id] is the operator id

cachevars == <<pc, cur, mem, fcache, ret, files, dirs, chan, bar, calls, pos, runs, fstouch, pub>>
\* the variables of the argument handling, which the cache protocol leaves alone
purevars == <<kin, kout, fobj, kcache, fhist, extops>>
vars == <<cachevars, purevars>>

IdleCur == [comm |-> COMM_NULL, form |-> "", i |-> 0, acc |-> <<>>, obj |-> NoObj]
NoEntry == [set |-> FALSE, kernels |-> <<>>]
NoPub == [n |-> 0, done |-> FALSE]
NoRet == [exc |-> "none", n |-> 0, kernels |-> <<>>]

\* the state of freshly started processes over a store holding the files fs
InitOver(fs, ds) ==
  /\ pc = [p \in Procs |-> "idle"]
  /\ cur = [p \in Procs |-> IdleCur]
  /\ mem = [p \in Procs |-> <<>>]
  /\ fcache = [x \in PG \X Forms |-> NoEntry]
  /\ ret = [x \in PG |-> NoRet]
  /\ files = fs
  /\ dirs = ds
  /\ chan = [x \in PG |-> <<>>]
  /\ bar = [x \in PG |-> "out"]
  /\ calls = [c \in Comms |-> <<>>]
  /\ pos = [x \in PG |-> 0]
  /\ runs = [x \in PG \X Digests |-> 0]
  /\ fstouch = {}
  /\ pub = [x \in Comms \X Digests |-> NoPub]

\* TSFCKernel._cache_key has not been called
KeyIdle ==
  /\ kin = <<>> /\ kout = <<>>
  /\ fobj = {} /\ kcache = {} /\ fhist = <<>> /\ extops = <<>>

\* a first run: no cache directory yet
Init == InitOver(<<>>, {}) /\ KeyIdle

\* a run over a store in which the file of dA is one that a reader cannot use:
\* a corrupt deflate stream, a truncated gzip member, not a gzip file, a gzip
\* member holding a truncated pickle, a gzip member holding nothing
CorruptFiles ==
  { [fmt |-> "bad_deflate", data |-> <<>>],
    [fmt |-> "partial", data |-> <<>>],
    [fmt |-> "not_gzip", data |-> <<>>],
    [fmt |-> "gzip", data |-> <<3, 10, 11>>],
    [fmt |-> "gzip", data |-> <<>>] }

InitCorrupt ==
  \E f \in CorruptFiles :
    InitOver(FilePut(<<>>, filepath(dA), f), {CacheRoot, shard_of(dA)}) /\ KeyIdle

Sub(p) == split_form(cur[p].form)[cur[p].i]
Key(p) == Sub(p).key

(***************************************************************************)
(* Exceptions.  An exception that leaves compile_form ends the call; the   *)
(* caller may go on.  pyop2's Cached.__new__ turns a failed lookup into    *)
(* construction followed by _cache_store.                                  *)
(***************************************************************************)
Cached_catches(exc) == exc \in {"KeyError", "OSError"}

Raise(p, exc) ==
  /\ pc' = [pc EXCEPT ![p] = "idle"]
  /\ cur' = [cur EXCEPT ![p] = IdleCur]
  /\ ret' = [ret EXCEPT ![<<p, cur[p].comm>>] =
               [exc |-> exc, n |-> pos[<<p, cur[p].comm>>], kernels |-> <<>>]]

LookupFailed(p, exc) ==
  IF Cached_catches(exc)
  THEN /\ pc' = [pc EXCEPT ![p] = "miss"]
       /\ UNCHANGED <<cur, ret>>
  ELSE Raise(p, exc)

LookupHit(p, obj) ==
  /\ pc' = [pc EXCEPT ![p] = "hit"]
  /\ cur' = [cur EXCEPT ![p].obj = obj]
  /\ UNCHANGED ret

(***************************************************************************)
(* compile_form up to the first sub-form: the per-form cache.  The calls   *)
(* made on one communicator are made in the same order by all its members. *)
(* A call either works on a new instance of the form (an empty per-form    *)
(* cache) or on the instance of the previous call for that form.           *)
(***************************************************************************)
CallChoices == [form : Forms, new : BOOLEAN]
SeenForm(c, F) == \E k \in 1..Len(calls[c]) : calls[c][k].form = F

compile_form(p, c) ==
  /\ pc[p] = "idle"
  /\ <<p, c>> \in PG
  /\ \E call \in CallChoices :
       /\ \/ /\ pos[<<p, c>>] < Len(calls[c])
             /\ call = calls[c][pos[<<p, c>>] + 1]
             /\ calls' = calls
          \/ /\ pos[<<p, c>>] = Len(calls[c])
             /\ Len(calls[COMM_WORLD]) + Len(calls[COMM_SUB]) < MaxCalls
             /\ call.new = ~SeenForm(c, call.form) \/ call.new
             /\ calls' = [calls EXCEPT ![c] = Append(@, call)]
       /\ pos' = [pos EXCEPT ![<<p, c>>] = @ + 1]
       /\ LET entry == IF call.new THEN NoEntry ELSE fcache[<< <<p, c>>, call.form >>] IN
          IF entry.set
          THEN /\ ret' = [ret EXCEPT ![<<p, c>>] =
                            [exc |-> "none", n |-> pos'[<<p, c>>], kernels |-> entry.kernels]]
               /\ UNCHANGED <<pc, cur, fcache>>
          ELSE /\ pc' = [pc EXCEPT ![p] = "lookup"]
               /\ cur' = [cur EXCEPT ![p] =
                            [comm |-> c, form |-> call.form, i |-> 1, acc |-> <<>>, obj |-> NoObj]]
               /\ fcache' = [fcache EXCEPT ![<< <<p, c>>, call.form >>] = NoEntry]
               /\ UNCHANGED ret
  /\ UNCHANGED <<mem, files, dirs, chan, bar, runs, fstouch, pub>>
  /\ UNCHANGED purevars

(***************************************************************************)
(* TSFCKernel._cache_lookup and _read_from_disk.                           *)
(***************************************************************************)
Bcast(p, c, val) ==
  [x \in PG |-> IF x[2] = c /\ x[1] # p THEN Append(chan[x], val) ELSE chan[x]]

AfterBcast(p, key, c, val) ==
  IF ~val.some
  THEN LookupFailed(p, "KeyError") /\ UNCHANGED mem
  ELSE LET r == pickle_loads(val.bytes) IN
       IF r.exc # "none"
       THEN LookupFailed(p, r.exc) /\ UNCHANGED mem
       ELSE /\ mem' = [mem EXCEPT ![p] = setdefault(@, MemKeyLoad(key, c), r.obj)]
            /\ LookupHit(p, mem'[p][MemKeyLoad(key, c)])

\* a lookup in which every rank reads the file itself and nothing is broadcast
read_from_disk_every_rank(p, key, c) ==
  LET path == read_filepath(key)
      exists == path \in DOMAIN files
      r == IF exists THEN gzip_read(files[path]) ELSE [exc |-> "none", data |-> <<>>]
  IN /\ fstouch' = fstouch \cup {<<p, c>>}
     /\ UNCHANGED chan
     /\ IF r.exc \notin {"none", "zlib.error"}
        THEN LookupFailed(p, r.exc) /\ UNCHANGED mem
        ELSE AfterBcast(p, key, c,
               IF exists /\ r.exc = "none" THEN SomeVal(r.data) ELSE NoneVal)

read_from_disk(p, key, c) ==
  IF rank(p, c) = 0
  THEN LET path == read_filepath(key)
           exists == path \in DOMAIN files
           r == IF exists THEN gzip_read(files[path]) ELSE [exc |-> "none", data |-> <<>>]
       IN /\ fstouch' = fstouch \cup {<<p, c>>}
          /\ IF r.exc \notin {"none", "zlib.error"}
             THEN LookupFailed(p, r.exc) /\ UNCHANGED <<mem, chan>>
             ELSE LET val == IF exists /\ r.exc = "none" THEN SomeVal(r.data) ELSE NoneVal IN
                  /\ chan' = Bcast(p, c, val)
                  /\ AfterBcast(p, key, c, val)
  ELSE /\ chan[<<p, c>>] # <<>>
       /\ chan' = [chan EXCEPT ![<<p, c>>] = Tail(@)]
       /\ AfterBcast(p, key, c, Head(chan[<<p, c>>]))
       /\ UNCHANGED fstouch

cache_lookup(p) ==
  /\ pc[p] = "lookup"
  /\ LET c == cur[p].comm
         hit == MemGet(mem[p], MemKeyLookup(Key(p), c))
     IN IF hit # NoObj
        THEN LookupHit(p, hit) /\ UNCHANGED <<mem, chan, fstouch>>
        ELSE read_from_disk(p, Key(p), c)
  /\ UNCHANGED <<fcache, files, dirs, bar, calls, pos, runs, pub>>
  /\ UNCHANGED purevars

(***************************************************************************)
(* TSFCKernel.__init__: the lowering pass and the KernelInfo tuple.        *)
(***************************************************************************)
TSFCKernel_init(p) ==
  /\ pc[p] = "miss"
  /\ runs' = [runs EXCEPT ![<< <<p, cur[p].comm>>, Key(p) >>] = @ + 1]
  /\ LET tree == compile_local_form(Key(p)) IN
     IF tree.exc # "none"
     THEN Raise(p, tree.exc)
     ELSE /\ pc' = [pc EXCEPT ![p] = "store"]
          /\ cur' = [cur EXCEPT ![p].obj =
                       [kernels |-> KernelInfos(Key(p), tree.kernels),
                        key |-> [digest |-> Key(p), comm |-> py2f(cur[p].comm)]]]
          /\ UNCHANGED ret
  /\ UNCHANGED <<mem, fcache, files, dirs, chan, bar, calls, pos, fstouch, pub>>
  /\ UNCHANGED purevars

(***************************************************************************)
(* TSFCKernel._cache_store, one step per file-system call of the root.     *)
(***************************************************************************)
makedirs(path) == dirs \cup {CacheRoot, path}
\* makedirs(path, exist_ok=True) raises FileExistsError only without exist_ok
exist_ok == TRUE
makedirs_raises_if_exists(path) == path \in dirs
makedirs_raises(path) == path \in dirs /\ ~exist_ok

\* a directory check made by every rank
ensure_cachedir_every_rank(p, c) ==
  dirs' = makedirs(CacheRoot) /\ fstouch' = fstouch \cup {<<p, c>>}

ensure_cachedir(p, c) ==
  IF rank(p, c) = 0
  THEN dirs' = makedirs(CacheRoot) /\ fstouch' = fstouch \cup {<<p, c>>}
  ELSE UNCHANGED <<dirs, fstouch>>

cache_store(p) ==
  /\ pc[p] = "store"
  /\ LET c == cur[p].comm
         val == IF rank(p, c) = 0
                THEN [cur[p].obj EXCEPT !.key = [digest |-> Key(p)]]
                ELSE cur[p].obj
     IN /\ mem' = [mem EXCEPT ![p] = MemPut(@, MemKeyStore(Key(p), c), val)]
        /\ ensure_cachedir(p, c)
        /\ IF rank(p, c) = 0 /\ makedirs_raises(CacheRoot)
           THEN Raise(p, "FileExistsError")
           ELSE /\ cur' = [cur EXCEPT ![p].obj = val]
                /\ pc' = [pc EXCEPT ![p] = IF rank(p, c) = 0 THEN "mkshard" ELSE "barrier"]
                /\ UNCHANGED ret
  /\ UNCHANGED <<fcache, files, chan, bar, calls, pos, runs, pub>>
  /\ UNCHANGED purevars

store_makedirs(p) ==
  /\ pc[p] = "mkshard"
  /\ IF makedirs_raises(shard_of(Key(p)))
     THEN /\ Raise(p, "FileExistsError")
          /\ UNCHANGED dirs
     ELSE /\ dirs' = makedirs(shard_of(Key(p)))
          /\ pc' = [pc EXCEPT ![p] = "open"]
          /\ UNCHANGED <<cur, ret>>
  /\ fstouch' = fstouch \cup {<<p, cur[p].comm>>}
  /\ UNCHANGED <<mem, fcache, files, chan, bar, calls, pos, runs, pub>>
  /\ UNCHANGED purevars

store_open(p) ==
  /\ pc[p] = "open"
  /\ IF shard_of(Key(p)) \in dirs
     THEN /\ files' = FilePut(files, tempfile(Key(p), getpid(p)), [fmt |-> "partial", data |-> <<>>])
          /\ pc' = [pc EXCEPT ![p] = "write"]
          /\ UNCHANGED <<cur, ret>>
     ELSE /\ Raise(p, "OSError")
          /\ UNCHANGED files
  /\ fstouch' = fstouch \cup {<<p, cur[p].comm>>}
  /\ UNCHANGED <<mem, fcache, dirs, chan, bar, calls, pos, runs, pub>>
  /\ UNCHANGED purevars

store_dump(p) ==
  /\ pc[p] = "write"
  /\ files' = FilePut(files, tempfile(Key(p), getpid(p)),
                      [fmt |-> "gzip", data |-> pickle_dump(cur[p].obj)])
  /\ fstouch' = fstouch \cup {<<p, cur[p].comm>>}
  /\ pc' = [pc EXCEPT ![p] = "rename"]
  /\ UNCHANGED <<cur, mem, fcache, ret, dirs, chan, bar, calls, pos, runs, pub>>
  /\ UNCHANGED purevars

store_rename(p) ==
  /\ pc[p] = "rename"
  /\ IF tempfile(Key(p), getpid(p)) \in DOMAIN files /\ shard_of(Key(p)) \in dirs
     THEN /\ files' = FileRename(files, tempfile(Key(p), getpid(p)), filepath(Key(p)))
          /\ pub' = [pub EXCEPT ![<<cur[p].comm, Key(p)>>] =
                       [n |-> pos[<<p, cur[p].comm>>], done |-> FALSE]]
          /\ pc' = [pc EXCEPT ![p] = "barrier"]
          /\ UNCHANGED <<cur, ret>>
     ELSE /\ Raise(p, "OSError")
          /\ UNCHANGED <<files, pub>>
  /\ fstouch' = fstouch \cup {<<p, cur[p].comm>>}
  /\ UNCHANGED <<mem, fcache, dirs, chan, bar, calls, pos, runs>>
  /\ UNCHANGED purevars

\* comm.barrier(): nobody leaves before everybody has arrived
barrier_enter(p) ==
  /\ pc[p] = "barrier"
  /\ LET c == cur[p].comm
         last == \A q \in MemberSet(c) \ {p} : bar[<<q, c>>] = "in"
     IN /\ bar' = [x \in PG |-> IF x[2] # c THEN bar[x]
                             ELSE IF last THEN "go"
                             ELSE IF x[1] = p THEN "in" ELSE bar[x]]
        /\ pub' = IF last THEN [pub EXCEPT ![<<c, Key(p)>>].done = TRUE] ELSE pub
  /\ pc' = [pc EXCEPT ![p] = "wait"]
  /\ UNCHANGED <<cur, mem, fcache, ret, files, dirs, chan, calls, pos, runs, fstouch>>
  /\ UNCHANGED purevars

\* a barrier that lets a process through on arrival
barrier_released_early(p, c) == bar[<<p, c>>] \in {"in", "go"}

barrier_released(p, c) == bar[<<p, c>>] = "go"

barrier_leave(p) ==
  /\ pc[p] = "wait"
  /\ barrier_released(p, cur[p].comm)
  /\ bar' = [bar EXCEPT ![<<p, cur[p].comm>>] = "out"]
  /\ pc' = [pc EXCEPT ![p] = "stored"]
  /\ UNCHANGED <<cur, mem, fcache, ret, files, dirs, chan, calls, pos, runs, fstouch, pub>>
  /\ UNCHANGED purevars

(***************************************************************************)
(* compile_form after TSFCKernel(...) returned: the SplitKernels of the    *)
(* sub-form, then the next sub-form or the per-form cache and the return.  *)
(***************************************************************************)
SplitKernels(idx, kinfos) == [k \in 1..Len(kinfos) |-> [indices |-> idx, kinfo |-> kinfos[k]]]

collect_kernels(p) ==
  /\ pc[p] \in {"hit", "stored"}
  /\ LET c == cur[p].comm
         F == cur[p].form
         acc == cur[p].acc \o SplitKernels(Sub(p).idx, cur[p].obj.kernels)
         entry == fcache[<< <<p, c>>, F >>]
     IN IF cur[p].i < Len(split_form(F))
        THEN /\ pc' = [pc EXCEPT ![p] = "lookup"]
             /\ cur' = [cur EXCEPT ![p].i = @ + 1, ![p].acc = acc, ![p].obj = NoObj]
             /\ UNCHANGED <<fcache, ret>>
        ELSE /\ fcache' = [fcache EXCEPT ![<< <<p, c>>, F >>] =
                             IF entry.set THEN entry ELSE [set |-> TRUE, kernels |-> acc]]
             /\ ret' = [ret EXCEPT ![<<p, c>>] =
                          [exc |-> "none", n |-> pos[<<p, c>>],
                           kernels |-> fcache'[<< <<p, c>>, F >>].kernels]]
             /\ pc' = [pc EXCEPT ![p] = "idle"]
             /\ cur' = [cur EXCEPT ![p] = IdleCur]
  /\ UNCHANGED <<mem, files, dirs, chan, bar, calls, pos, runs, fstouch, pub>>
  /\ UNCHANGED purevars

Next ==
  \/ \E p \in Procs, c \in Comms : compile_form(p, c)
  \/ \E p \in Procs : cache_lookup(p)
  \/ \E p \in Procs : TSFCKernel_init(p)
  \/ \E p \in Procs : cache_store(p)
  \/ \E p \in Procs : store_makedirs(p)
  \/ \E p \in Procs : store_open(p)
  \/ \E p \in Procs : store_dump(p)
  \/ \E p \in Procs : store_rename(p)
  \/ \E p \in Procs : barrier_enter(p)
  \/ \E p \in Procs : barrier_leave(p)
  \/ \E p \in Procs : collect_kernels(p)

(***************************************************************************)
(* clear_cache, and the in-memory table emptied (a test harness clearing   *)
(* TSFCKernel._cache, or a new interpreter over the same store).  Clears   *)
(* are serialized with compilation by the caller: they happen when no      *)
(* compile_form call is under way on any communicator.                     *)
(***************************************************************************)
Quiescent ==
  /\ \A p \in Procs : pc[p] = "idle"
  /\ \A x \in PG : pos[x] = Len(calls[x[2]]) /\ chan[x] = <<>>

\* a clear that also empties the caches kept on the forms of the process
clear_cache_drops_forms(p, c) ==
  /\ <<p, c>> \in PG
  /\ Quiescent
  /\ IF rank(p, c) = 0
     THEN /\ files' = <<>>
          /\ dirs' = {CacheRoot}
          /\ fstouch' = fstouch \cup {<<p, c>>}
          /\ pub' = [x \in Comms \X Digests |-> NoPub]
          /\ fcache' = [x \in PG \X Forms |-> IF x[1][1] = p THEN NoEntry ELSE fcache[x]]
     ELSE UNCHANGED <<files, dirs, fstouch, pub, fcache>>
  /\ UNCHANGED <<pc, cur, mem, ret, chan, bar, calls, pos, runs>>
  /\ UNCHANGED purevars

clear_cache(p, c) ==
  /\ <<p, c>> \in PG
  /\ Quiescent
  /\ IF rank(p, c) = 0
     THEN /\ files' = <<>>
          /\ dirs' = {CacheRoot}
          /\ fstouch' = fstouch \cup {<<p, c>>}
          /\ pub' = [x \in Comms \X Digests |-> NoPub]
     ELSE UNCHANGED <<files, dirs, fstouch, pub>>
  /\ UNCHANGED <<pc, cur, mem, fcache, ret, chan, bar, calls, pos, runs>>
  /\ UNCHANGED purevars

\* every process empties its table between two collective calls
cache_table_reset ==
  /\ Quiescent
  /\ \E p \in Procs : mem[p] # <<>>
  /\ mem' = [p \in Procs |-> <<>>]
  /\ UNCHANGED <<pc, cur, fcache, ret, files, dirs, chan, bar, calls, pos, runs, fstouch, pub>>
  /\ UNCHANGED purevars

NextClear ==
  \/ Next
  \/ \E p \in Procs, c \in Comms : clear_cache(p, c)

NextReset ==
  \/ Next
  \/ cache_table_reset

\* a file-system call of the publish fails for a reason of the file system
\* (no space, no permission): nothing catches the error in _cache_store
store_io_error(p) ==
  /\ pc[p] \in {"mkshard", "open", "write", "rename"}
  /\ Raise(p, "OSError")
  /\ fstouch' = fstouch \cup {<<p, cur[p].comm>>}
  /\ UNCHANGED <<mem, fcache, files, dirs, chan, bar, calls, pos, runs, pub>>
  /\ UNCHANGED purevars

NextFault ==
  \/ Next
  \/ \E p \in Procs : store_io_error(p)

Spec == Init /\ [][Next]_vars
SpecFault == Init /\ [][NextFault]_vars
SpecCorrupt == InitCorrupt /\ [][Next]_vars
SpecClear == Init /\ [][NextClear]_vars
SpecReset == Init /\ [][NextReset]_vars

(***************************************************************************)
(* TSFCKernel._cache_key.  A string is the sequence of its tokens; str()   *)
(* and repr() give the tokens Python prints.  md5 is taken to be collision *)
(* free: a digest stands for the string that was hashed.  A dict is the    *)
(* sequence of its items in insertion order.                               *)
(***************************************************************************)
str_bool(b) == IF b THEN <<"True">> ELSE <<"False">>
str_num(n) == IF n = None THEN <<"None">> ELSE <<ToString(n)>>
repr_str(v) == <<"'", v, "'">>

\* str() of a tuple of numbers and None: "(0, 1)", "(None,)", "()"
RECURSIVE str_elems(_)
str_elems(t) ==
  IF t = <<>> THEN <<>>
  ELSE IF Len(t) = 1 THEN str_num(t[1])
  ELSE str_num(Head(t)) \o <<", ">> \o str_elems(Tail(t))
str_tuple(t) ==
  IF Len(t) = 1 THEN <<"(">> \o str_num(t[1]) \o <<",", ")">>
  ELSE <<"(">> \o str_elems(t) \o <<")">>

\* str() of a dict {0: m[1], 1: m[2], ...}, built by enumerate
RECURSIVE str_dict_from(_, _)
str_dict_from(m, n) ==
  IF n > Len(m) THEN <<>>
  ELSE <<ToString(n - 1), ": ", ToString(m[n])>>
       \o (IF n < Len(m) THEN <<", ">> ELSE <<>>) \o str_dict_from(m, n + 1)
str_dict(m) == <<"{">> \o str_dict_from(m, 1) \o <<"}">>

\* the parameter names, in the order of Python's string comparison
KeyOrder == <<"mode", "optlevel", "quadrature_degree", "scalar_type">>
key_rank(k) == CHOOSE i \in 1..Len(KeyOrder) : KeyOrder[i] = k

RECURSIVE sorted_insert(_, _)
sorted_insert(x, s) ==
  IF s = <<>> THEN <<x>>
  ELSE IF key_rank(x[1]) <= key_rank(Head(s)[1]) THEN <<x>> \o s
  ELSE <<Head(s)>> \o sorted_insert(x, Tail(s))

\* items taken in the order the dict happens to hold them
sorted_as_inserted(items) == items

\* sorted(d.items())
RECURSIVE sorted(_)
sorted(items) ==
  IF items = <<>> THEN <<>> ELSE sorted_insert(Head(items), sorted(Tail(items)))

\* str() of a list of (name, value) pairs with string values
RECURSIVE str_pairs(_)
str_pairs(items) ==
  IF items = <<>> THEN <<>>
  ELSE <<"(">> \o repr_str(Head(items)[1]) \o <<", ">> \o repr_str(Head(items)[2]) \o <<")">>
       \o (IF Len(items) > 1 THEN <<", ">> ELSE <<>>) \o str_pairs(Tail(items))
str_items(items) == <<"[">> \o str_pairs(items) \o <<"]">>

\* the interface argument: None or a builder class; type() of a class is
\* its metaclass, the same for the two builder classes
NoInterface == "None"
Interfaces == {NoInterface, "firedrake.KernelBuilder", "firedrake_loopy.KernelBuilder"}
type_of(interface) == IF interface = NoInterface THEN "NoneType" ELSE "abc.ABCMeta"
str_type(t) == <<"<class '", t, "'>">>

\* default_parameters["coffee"]
default_parameters_coffee == << <<"optlevel", "Ov">> >>

md5_hexdigest(s) == s

\* a key that hashes the parameters before the coffee defaults
cache_key_parameters_first(form, name, parameters, nmap, smap, interface, coffee, diagonal, idx) ==
  [digest |-> md5_hexdigest(<<form.sig>> \o <<name>>
                            \o str_items(sorted(parameters))
                            \o str_items(sorted(default_parameters_coffee))
                            \o str_dict(nmap)
                            \o str_dict(smap)
                            \o str_type(type_of(interface))
                            \o str_bool(coffee)
                            \o str_tuple(idx)
                            \o str_bool(diagonal)),
   comm |-> form.comm]

cache_key(form, name, parameters, nmap, smap, interface, coffee, diagonal, idx) ==
  [digest |-> md5_hexdigest(<<form.sig>> \o <<name>>
                            \o str_items(sorted(default_parameters_coffee))
                            \o str_items(sorted(parameters))
                            \o str_dict(nmap)
                            \o str_dict(smap)
                            \o str_type(type_of(interface))
                            \o str_bool(coffee)
                            \o str_tuple(idx)
                            \o str_bool(diagonal)),
   comm |-> form.comm]

(***************************************************************************)
(* Calls of _cache_key on two argument lists that differ in at most one    *)
(* argument.  oid is the identity of the form object.                      *)
(***************************************************************************)
ParamDicts ==
  UNION { { << <<"mode", m>>, <<"scalar_type", t>> >>, << <<"scalar_type", t>>, <<"mode", m>> >> } :
          m \in {"spectral", "vanilla"}, t \in {"double", "float"} }
KeyArgs ==
  [sig : {"s1", "s2"}, oid : {1, 2}, name : {"form"}, parameters : ParamDicts,
   number_map : {<<0>>, <<1>>}, subspace_number_map : {<<>>, <<0>>},
   interface : Interfaces, coffee : BOOLEAN, diagonal : BOOLEAN,
   idx : {<<None, None>>, <<0, 1>>}]
\* the argument lists that are a with at most one argument replaced
OneReplaced(a) ==
  { [a EXCEPT !.sig = v] : v \in {"s1", "s2"} }
  \cup { [a EXCEPT !.oid = v] : v \in {1, 2} }
  \cup { [a EXCEPT !.parameters = v] : v \in ParamDicts }
  \cup { [a EXCEPT !.number_map = v] : v \in {<<0>>, <<1>>} }
  \cup { [a EXCEPT !.subspace_number_map = v] : v \in {<<>>, <<0>>} }
  \cup { [a EXCEPT !.interface = v] : v \in Interfaces }
  \cup { [a EXCEPT !.coffee = v] : v \in BOOLEAN }
  \cup { [a EXCEPT !.diagonal = v] : v \in BOOLEAN }
  \cup { [a EXCEPT !.idx = v] : v \in {<<None, None>>, <<0, 1>>} }

cache_key_of(a) ==
  cache_key([sig |-> a.sig, comm |-> COMM_WORLD], a.name, a.parameters, a.number_map,
            a.subspace_number_map, a.interface, a.coffee, a.diagonal, a.idx)

cache_key_call ==
  /\ kin # <<>> /\ kout = <<>>
  /\ kout' = <<cache_key_of(kin[1]), cache_key_of(kin[2])>>
  /\ UNCHANGED <<cachevars, kin, fobj, kcache, fhist, extops>>

InitKey ==
  /\ InitOver(<<>>, {})
  /\ \E a \in KeyArgs : \E b \in OneReplaced(a) : kin = <<a, b>>
  /\ kout = <<>>
  /\ fobj = {} /\ kcache = {} /\ fhist = <<>> /\ extops = <<>>
NextKey == cache_key_call
SpecKey == InitKey /\ [][NextKey]_vars

(***************************************************************************)
(* The forms handed to compile_form.  A form is its operands (arguments,   *)
(* or literals put in their place), the names of its coefficients and      *)
(* subspaces, and its integrals, each with the local numbers of the        *)
(* coefficients and subspaces it uses.  Space "R" is the Real space, "W"   *)
(* the mixed space V x Q.                                                  *)
(***************************************************************************)
Arg(n, space) == [kind |-> "arg", number |-> n, space |-> space]
One == [kind |-> "one", number |-> 1, space |-> ""]
TestFunction(space) == Arg(0, space)
family(space) ==
  IF space = "R" THEN "Real" ELSE IF space = "W" THEN "Mixed" ELSE "Lagrange"
arguments(form) == SelectSeq(form.ops, LAMBDA x : x.kind = "arg")
\* the signature: the content of the expression, coefficients renumbered
signature(form) == <<form.ops, Len(form.coefs), Len(form.subs), form.integrals>>
\* ufl.replace
replace(form, replacements) ==
  [form EXCEPT !.ops = [i \in DOMAIN form.ops |->
                          IF form.ops[i] \in DOMAIN replacements
                          THEN replacements[form.ops[i]] ELSE form.ops[i]]]

Integral(itype, coefs, subs) == [itype |-> itype, coefs |-> coefs, subs |-> subs]
NoForm == [ops |-> <<>>, coefs |-> <<>>, subs |-> <<>>, integrals |-> <<>>]
L0 == [ops |-> <<>>, coefs |-> <<"f">>, subs |-> <<>>,
       integrals |-> <<Integral("cell", <<0>>, <<>>)>>]
L1(space) ==
  [ops |-> <<Arg(0, space)>>, coefs |-> <<"f", "g">>, subs |-> <<>>,
   integrals |-> <<Integral("cell", <<0, 1>>, <<>>), Integral("exterior_facet", <<1>>, <<>>)>>]
B(test, trial) ==
  [ops |-> <<Arg(0, test), Arg(1, trial)>>, coefs |-> <<"f">>, subs |-> <<>>,
   integrals |-> <<Integral("cell", <<0>>, <<>>)>>]
\* a form over the mixed space with the blocks (0, 0) and (1, 1)
BW == [ops |-> <<Arg(0, "W"), Arg(1, "W")>>, coefs |-> <<"f", "g", "h">>,
       subs |-> <<"S1", "S2">>,
       integrals |-> <<Integral("cell", <<0, 1, 2>>, <<0, 1>>)>>]
BW00 == [ops |-> <<Arg(0, "V"), Arg(1, "V")>>, coefs |-> <<"g">>, subs |-> <<>>,
         integrals |-> <<Integral("cell", <<0>>, <<>>)>>]
BW11 == [ops |-> <<Arg(0, "Q"), Arg(1, "Q")>>, coefs |-> <<"f", "h">>, subs |-> <<"S2">>,
         integrals |-> <<Integral("cell", <<1, 0>>, <<0>>),
                         Integral("interior_facet", <<1>>, <<>>)>>]

\* the objects: o is the identity, blocks what split_form yields by block
Whole(idx, form) == << [idx |-> idx, f |-> form] >>
Objects ==
  { [o |-> 1, isform |-> TRUE, form |-> L0, blocks |-> Whole(<<>>, L0)],
    [o |-> 2, isform |-> TRUE, form |-> L1("V"), blocks |-> Whole(<<0>>, L1("V"))],
    [o |-> 3, isform |-> TRUE, form |-> L1("R"), blocks |-> Whole(<<0>>, L1("R"))],
    [o |-> 4, isform |-> TRUE, form |-> BW,
     blocks |-> << [idx |-> <<0, 0>>, f |-> BW00], [idx |-> <<1, 1>>, f |-> BW11] >>],
    [o |-> 5, isform |-> TRUE, form |-> B("R", "V"), blocks |-> Whole(<<0, 0>>, B("R", "V"))],
    [o |-> 6, isform |-> TRUE, form |-> B("V", "R"), blocks |-> Whole(<<0, 0>>, B("V", "R"))],
    [o |-> 7, isform |-> TRUE, form |-> B("R", "R"), blocks |-> Whole(<<0, 0>>, B("R", "R"))],
    [o |-> 8, isform |-> FALSE, form |-> NoForm, blocks |-> <<>>] }

(***************************************************************************)
(* _real_mangle.                                                           *)
(***************************************************************************)
IsReal(x) == family(x.space) = "Real"
real_mangle_keep_trial(form) ==
  LET a == arguments(form)
      realargs == {a[i] : i \in {j \in DOMAIN a : IsReal(a[j])}}
      replacements == [x \in realargs |-> One]
  IN  IF realargs = {} THEN form ELSE replace(form, replacements)
real_mangle(form) ==
  LET a == arguments(form)
      reals == [i \in DOMAIN a |-> IsReal(a[i])]
      realargs == {a[i] : i \in {j \in DOMAIN a : reals[j]}}
      swapped == IF reals = <<TRUE, FALSE>> THEN {a[2]} ELSE {}
      replacements == [x \in realargs \cup swapped |->
                         IF x \in realargs THEN One ELSE TestFunction(x.space)]
  IN  IF \A i \in DOMAIN a : ~reals[i] THEN form ELSE replace(form, replacements)

(***************************************************************************)
(* compile_form: the parameters, the key of the cache kept on the form,    *)
(* the sub-forms and their number maps.                                    *)
(***************************************************************************)
default_parameters_form_compiler == << <<"scalar_type", "double">>, <<"mode", "spectral">> >>
HasKey(d, k) == \E i \in DOMAIN d : d[i][1] = k
\* d[k] = v of a dict: a known key keeps its place, a new one goes last
dict_set(d, k, v) ==
  IF HasKey(d, k) THEN [i \in DOMAIN d |-> IF d[i][1] = k THEN <<k, v>> ELSE d[i]]
  ELSE Append(d, <<k, v>>)
RECURSIVE dict_update(_, _)
dict_update(d, u) ==
  IF u = <<>> THEN d ELSE dict_update(dict_set(d, Head(u)[1], Head(u)[2]), Tail(u))
NoParameters == [given |-> FALSE, items |-> <<>>]
Given(items) == [given |-> TRUE, items |-> items]
merge_parameters(parameters) ==
  IF ~parameters.given THEN default_parameters_form_compiler
  ELSE dict_update(default_parameters_form_compiler, parameters.items)
tuplify(params) == sorted(params)
form_cache_key_no_diagonal(name, parameters, split, diagonal) ==
  <<tuplify(default_parameters_coffee), name, tuplify(parameters), split, FALSE>>
form_cache_key(name, parameters, split, diagonal) ==
  <<tuplify(default_parameters_coffee), name, tuplify(parameters), split, diagonal>>
isinstance_any(obj) == TRUE
isinstance_Form(obj) == obj.isform
nargs_of(obj) == Len(arguments(obj.form))
Nones(n) == [i \in 1..n |-> None]
\* split_form: one sub-form per block, per diagonal block for diagonal
DiagonalBlocks(blocks) ==
  LET diag == SelectSeq(blocks, LAMBDA b : b.idx[1] = b.idx[2])
  IN  [i \in DOMAIN diag |-> [idx |-> <<diag[i].idx[1]>>, f |-> diag[i].f]]
split_form_of(obj, diagonal) ==
  IF diagonal THEN DiagonalBlocks(obj.blocks) ELSE obj.blocks
\* the unsplit form with one None per argument, diagonal or not
iterable_of_all_arguments(obj, split, diagonal) ==
  IF split THEN split_form_of(obj, diagonal)
  ELSE << [idx |-> Nones(nargs_of(obj)), f |-> obj.form] >>
iterable_of(obj, split, diagonal) ==
  IF split THEN split_form_of(obj, diagonal)
  ELSE << [idx |-> Nones(IF diagonal THEN 1 ELSE nargs_of(obj)), f |-> obj.form] >>
\* the position (from 0) of the name x in the sequence names
RECURSIVE enumerate_from(_, _, _)
enumerate_from(names, x, n) ==
  IF names[n + 1] = x THEN n ELSE enumerate_from(names, x, n + 1)
coefficient_numbers(form) == [c \in {form.coefs[i] : i \in DOMAIN form.coefs} |->
                                enumerate_from(form.coefs, c, 0)]
subspace_numbers(form) == [x \in {form.subs[i] : i \in DOMAIN form.subs} |->
                             enumerate_from(form.subs, x, 0)]
\* number_map and subspace_number_map, as functions of the positions 1..n
number_map_of(f, form) == [n \in DOMAIN f.coefs |-> coefficient_numbers(form)[f.coefs[n]]]
subspace_number_map_of(f, form) == [n \in DOMAIN f.subs |-> subspace_numbers(form)[f.subs[n]]]
RECURSIVE str_idx(_)
str_idx(idx) ==
  IF idx = <<>> THEN <<>>
  ELSE (IF Head(idx) = None THEN <<>> ELSE str_num(Head(idx))) \o str_idx(Tail(idx))
prefix_of(name, idx) == <<name>> \o str_idx(idx)

(***************************************************************************)
(* The name of a kernel.  A string is the sequence of its pieces, each the *)
(* character "-" or a piece without that character.  A subdomain id is an *)
(* integer (s = "") or one of the strings "otherwise" and "everywhere".    *)
(***************************************************************************)
SubdomainInt(n) == [n |-> n, s |-> ""]
SubdomainStr(s) == [n |-> 0, s |-> s]
Otherwise == SubdomainStr("otherwise")
str_int(n) == IF n < 0 THEN <<"-", ToString(-n)>> ELSE <<ToString(n)>>
str_subdomain(x) == IF x.s # "" THEN <<x.s>> ELSE str_int(x.n)
\* s.replace("-", "_")
replace_dash(s) == [i \in DOMAIN s |-> IF s[i] = "-" THEN "_" ELSE s[i]]
\* a name left as the format made it
kernel_name_unreplaced(prefix, integral_type, subdomain_id) ==
  prefix \o <<"_", integral_type, "_integral_">> \o str_subdomain(subdomain_id)
kernel_name_of(prefix, integral_type, subdomain_id) ==
  replace_dash(prefix \o <<"_", integral_type, "_integral_">> \o str_subdomain(subdomain_id))

NameArgs ==
  [prefix : {<<"form">>, <<"form", "0", "1">>, <<"my", "-", "form">>, <<"-">>,
             <<"a", "-", "b", "-", "1">>, <<"f", "_", "1">>},
   integral_type : {"cell", "exterior_facet", "interior_facet", "interior_facet_horiz"},
   subdomain_id : {Otherwise, SubdomainStr("everywhere"), SubdomainInt(-1),
                   SubdomainInt(0), SubdomainInt(3), SubdomainInt(-12)}]
kernel_name_call ==
  /\ kin # <<>> /\ kout = <<>>
  /\ kout' = <<kernel_name_of(kin[1].prefix, kin[1].integral_type, kin[1].subdomain_id)>>
  /\ UNCHANGED <<cachevars, kin, fobj, kcache, fhist, extops>>
InitName ==
  /\ InitOver(<<>>, {})
  /\ \E a \in NameArgs : kin = <<a>>
  /\ kout = <<>>
  /\ fobj = {} /\ kcache = {} /\ fhist = <<>> /\ extops = <<>>
SpecName == InitName /\ [][kernel_name_call]_vars

(***************************************************************************)
(* compile_local_form and TSFCKernel.__init__ for these forms.             *)
(***************************************************************************)
CoffeeBuilder == "firedrake.KernelBuilder"
LoopyBuilder == "firedrake_loopy.KernelBuilder"
\* lines 206-216: a given interface is used as given, whatever the coffee
\* flag; with none given the coffee flag picks the builder. Nothing raises.
pick_interface(interface, coffee) ==
  IF interface # NoInterface THEN interface
  ELSE IF coffee THEN CoffeeBuilder ELSE LoopyBuilder
\* the kernels of a form: one per integral, made by the builder picked
compile_local_form_with(f, prefix, interface, coffee, diagonal) ==
  [b \in DOMAIN f.integrals |->
     [name |-> kernel_name_of(prefix, f.integrals[b].itype, Otherwise),
      builder |-> pick_interface(interface, coffee),
      scalar |-> IF coffee THEN "scalar_type_c" ELSE "scalar_type",
      integral_type |-> f.integrals[b].itype,
      coefficient_numbers |-> f.integrals[b].coefs,
      external_data_numbers |-> f.integrals[b].subs]]
unwind_local(map, numbers) == numbers
unwind(map, numbers) == [i \in DOMAIN numbers |-> map[numbers[i] + 1]]
kernel_infos(tree, nmap, smap) ==
  [k \in DOMAIN tree |->
     [kernel |-> tree[k].name,
      integral_type |-> tree[k].integral_type,
      coefficient_map |-> unwind(nmap, tree[k].coefficient_numbers),
      subspace_map |-> unwind(smap, tree[k].external_data_numbers)]]

(***************************************************************************)
(* compile_local_form: the loop over the integrals of one batch.  Dicts    *)
(* are objects: heap[id] is the dict with identity id, and the batch-wide  *)
(* parameters are the object 1.  A multi-index is the argument slot it     *)
(* belongs to and whether it is the dummy one.  An expression is the       *)
(* sequence of contractions applied to the lowered integrand, innermost    *)
(* first.                                                                  *)
(***************************************************************************)
MaxIntegrals == 2
NoSubspace == "None"
MultiIndex(slot, dummy) == [slot |-> slot, dummy |-> dummy]
argument_multiindices(nargs) == [n \in 1..nargs |-> MultiIndex(n, FALSE)]
argument_multiindices_dummy(nargs) == [n \in 1..nargs |-> MultiIndex(n, TRUE)]
\* params = parameters with no copy made
dict_copy_alias(heap, id) == [heap |-> heap, id |-> id]
\* parameters.copy()
dict_copy(heap, id) == [heap |-> Append(heap, heap[id]), id |-> Len(heap) + 1]
\* an integrand lowered with the real multi-index in every slot
pick_multiindex_real(i, i_dummy, subspace) == i
\* i if subspace is None else i_dummy
pick_multiindex(i, i_dummy, subspace) == IF subspace = NoSubspace THEN i ELSE i_dummy
Min(a, b) == IF a < b THEN a ELSE b
\* the contractions of the argument slots n.., applied to expressions
RECURSIVE transform_arguments(_, _, _, _)
transform_arguments(subspace_tuple, nargs, n, expressions) ==
  IF n > Min(nargs, Len(subspace_tuple)) THEN expressions
  ELSE transform_arguments(subspace_tuple, nargs, n + 1,
         IF subspace_tuple[n] = NoSubspace THEN expressions
         ELSE Append(expressions,
                     [kind |-> "argument", mat |-> subspace_tuple[n],
                      indexed |-> <<argument_multiindices(nargs)[n],
                                    argument_multiindices_dummy(nargs)[n]>>,
                      summed |-> argument_multiindices_dummy(nargs)[n]]))
\* the two contractions of each extra slot n.. (a coefficient with a subspace)
RECURSIVE transform_extras(_, _, _, _)
transform_extras(subspace_tuple, nargs, n, expressions) ==
  IF n > Len(subspace_tuple) THEN expressions
  ELSE transform_extras(subspace_tuple, nargs, n + 1,
         expressions
         \o << [kind |-> "extra", mat |-> subspace_tuple[n],
                indexed |-> <<MultiIndex(n, TRUE), MultiIndex(n, FALSE)>>,
                summed |-> MultiIndex(n, FALSE)],
               [kind |-> "coefficient", mat |-> subspace_tuple[n],
                indexed |-> <<MultiIndex(n, TRUE)>>,
                summed |-> MultiIndex(n, TRUE)] >>)
lower_integral(heap, integral, nargs) ==
  LET copy == dict_copy(heap, 1)
      updated == [copy.heap EXCEPT ![copy.id] = dict_update(@, integral.metadata)]
      st == integral.subspace_tuple
      multiindices ==
        [n \in 1..Min(nargs, Len(st)) |->
           pick_multiindex(argument_multiindices(nargs)[n],
                           argument_multiindices_dummy(nargs)[n], st[n])]
        \o [n \in 1..(Len(st) - Min(nargs, Len(st))) |-> MultiIndex(nargs + n, FALSE)]
  IN  [heap |-> updated,
       out |-> [params |-> updated[copy.id],
                multiindices |-> multiindices,
                expressions |-> transform_extras(st, nargs, nargs + 1,
                                  transform_arguments(st, nargs, 1, <<>>))]]
RECURSIVE lower_integrals_from(_, _, _, _, _)
lower_integrals_from(integrals, i, nargs, heap, outs) ==
  IF i > Len(integrals) THEN [parameters |-> heap[1], integrals |-> outs]
  ELSE LET r == lower_integral(heap, integrals[i], nargs)
       IN  lower_integrals_from(integrals, i + 1, nargs, r.heap, Append(outs, r.out))
lower_integrals(parameters, integrals, nargs) ==
  lower_integrals_from(integrals, 1, nargs, <<parameters>>, <<>>)

Metadata ==
  {<<>>, << <<"mode", "vanilla">> >>, << <<"quadrature_degree", "2">>, <<"mode", "tensor">> >>}
SubspaceTuples(nargs) ==
  UNION { {t, t \o <<"S3">>} : t \in [1..nargs -> {NoSubspace, "S1"}] }
IntegralsOf(nargs) == [metadata : Metadata, subspace_tuple : SubspaceTuples(nargs)]
IntegralLists(nargs) ==
  UNION { [1..n -> IntegralsOf(nargs)] : n \in 1..MaxIntegrals }
LowerArgs ==
  UNION { [parameters : {default_parameters_form_compiler,
                         << <<"mode", "vanilla">>, <<"scalar_type", "double">> >>},
           nargs : {nargs}, integrals : IntegralLists(nargs)] : nargs \in 1..2 }
lower_integrals_call ==
  /\ kin # <<>> /\ kout = <<>>
  /\ kout' = <<lower_integrals(kin[1].parameters, kin[1].integrals, kin[1].nargs)>>
  /\ UNCHANGED <<cachevars, kin, fobj, kcache, fhist, extops>>
InitLower ==
  /\ InitOver(<<>>, {})
  /\ \E a \in LowerArgs : kin = <<a>>
  /\ kout = <<>>
  /\ fobj = {} /\ kcache = {} /\ fhist = <<>> /\ extops = <<>>
SpecLower == InitLower /\ [][lower_integrals_call]_vars

(***************************************************************************)
(* compile_form, called by the one process of a communicator of size one   *)
(* on varying arguments.  With one process and nothing removed, a lookup   *)
(* of the TSFCKernel cache hits exactly when the digest was stored before, *)
(* so the cache is the set kcache of stored digests with their kernels.    *)
(* A tuple object is told from an equal one by id, the number of the call  *)
(* that built it.                                                          *)
(***************************************************************************)
MaxFrontCalls == 2
Parameters ==
  {NoParameters, Given(<< <<"mode", "vanilla">> >>), Given(<< <<"mode", "spectral">> >>)}
CallArgs ==
  {a \in [obj : Objects, name : {"form"}, parameters : Parameters, split : BOOLEAN,
          interface : Interfaces, coffee : BOOLEAN, diagonal : BOOLEAN] :
     (a.split /\ a.diagonal) => nargs_of(a.obj) = 2}
NoTuple == [id |-> 0, kernels |-> <<>>]
NoWork == [keyed |-> <<>>, built |-> <<>>, nlookup |-> 0]
Stored(kc, digest) == {e \in kc : e.digest = digest}

\* the loop over the sub-forms iterable[i..]; x holds the cache, the kernels
\* collected, the forms keyed, the forms lowered and the number of lookups
RECURSIVE subforms_from(_, _, _, _, _)
subforms_from(iterable, i, a, parameters, x) ==
  IF i > Len(iterable) THEN x
  ELSE LET idx == iterable[i].idx
           f == real_mangle(iterable[i].f)
           nmap == number_map_of(f, a.obj.form)
           smap == subspace_number_map_of(f, a.obj.form)
           prefix == prefix_of(a.name, idx)
           key == cache_key([sig |-> signature(f), comm |-> COMM_WORLD], prefix, parameters,
                            nmap, smap, a.interface, a.coffee, a.diagonal, idx)
           hit == Stored(x.kc, key.digest)
           tree == compile_local_form_with(f, prefix, a.interface, a.coffee, a.diagonal)
           kinfos == IF hit # {} THEN (CHOOSE e \in hit : TRUE).kernels
                     ELSE kernel_infos(tree, nmap, smap)
       IN  subforms_from(iterable, i + 1, a, parameters,
             [kc |-> IF hit # {} THEN x.kc
                     ELSE x.kc \cup {[digest |-> key.digest, kernels |-> kinfos]},
              kernels |-> x.kernels \o SplitKernels(idx, kinfos),
              keyed |-> Append(x.keyed, f),
              built |-> IF hit # {} THEN x.built ELSE Append(x.built, [f |-> f, tree |-> tree]),
              nlookup |-> x.nlookup + 1])

Outcome(a, exc, tup, x) ==
  [a |-> a, exc |-> exc, tup |-> tup,
   keyed |-> x.keyed, built |-> x.built, nlookup |-> x.nlookup]

compile_form_call(a) ==
  /\ Len(fhist) < MaxFrontCalls
  /\ LET obj == a.obj
         parameters == merge_parameters(a.parameters)
         key == form_cache_key(a.name, parameters, a.split, a.diagonal)
         cached == {e \in fobj : e.o = obj.o /\ e.key = key}
         done == subforms_from(iterable_of(obj, a.split, a.diagonal), 1, a, parameters,
                               [kc |-> kcache, kernels |-> <<>>, keyed |-> <<>>,
                                built |-> <<>>, nlookup |-> 0])
     IN  IF ~isinstance_Form(obj)
         THEN /\ fhist' = Append(fhist, Outcome(a, "RuntimeError", NoTuple, NoWork))
              /\ UNCHANGED <<fobj, kcache>>
         ELSE IF cached # {}
         THEN /\ fhist' = Append(fhist, Outcome(a, "", (CHOOSE e \in cached : TRUE).tup, NoWork))
              /\ UNCHANGED <<fobj, kcache>>
         ELSE IF ~a.split /\ a.diagonal /\ nargs_of(obj) # 2
         THEN /\ fhist' = Append(fhist, Outcome(a, "AssertionError", NoTuple, NoWork))
              /\ UNCHANGED <<fobj, kcache>>
         ELSE \E x \in {done} :
                LET kernels == [id |-> Len(fhist) + 1, kernels |-> x.kernels]
                IN  /\ fobj' = fobj \cup {[o |-> obj.o, key |-> key, tup |-> kernels]}
                    /\ kcache' = x.kc
                    /\ fhist' = Append(fhist, Outcome(a, "", kernels, x))
  /\ UNCHANGED <<cachevars, kin, kout, extops>>

NextFront == \E a \in CallArgs : compile_form_call(a)
SpecFront == Init /\ [][NextFront]_vars

(***************************************************************************)
(* compile_form and the dicts it is handed.  Dicts are objects: heap[id]   *)
(* is the dict with identity id; the object 1 is                           *)
(* default_parameters["form_compiler"] and the object 2 is the dict the    *)
(* caller passed, when one is passed.                                      *)
(***************************************************************************)
\* parameters = default_parameters["form_compiler"] with no copy made
form_parameters_no_copy(heap, given) ==
  IF ~given THEN [heap |-> heap, id |-> 1]
  ELSE [heap |-> [heap EXCEPT ![1] = dict_update(@, heap[2])], id |-> 1]
\* the dict compile_form works with: a copy of the defaults, updated with
\* the caller's dict
form_parameters(heap, given) ==
  LET c == dict_copy(heap, 1)
  IN  IF ~given THEN c
      ELSE [heap |-> [c.heap EXCEPT ![c.id] = dict_update(@, heap[2])], id |-> c.id]
dict_del(d, k) == SelectSeq(d, LAMBDA kv : kv[1] # k)
\* tsfc.driver.preprocess_parameters is not part of this repository: it is
\* handed the dict compile_form made, and either changes that dict in place
\* or builds another one
preprocess_parameters(heap, id, in_place) ==
  LET c == IF in_place THEN [heap |-> heap, id |-> id] ELSE dict_copy(heap, id)
  IN  [heap |-> [c.heap EXCEPT ![c.id] = dict_del(@, "quadrature_degree")], id |-> c.id]
\* the dicts after a compile_form call: cached tells whether the form holds
\* a tuple under the key, fail_at the integral at which the generator raises
compile_form_dicts(a) ==
  LET heap == IF a.parameters.given THEN <<a.defaults, a.parameters.items>>
              ELSE <<a.defaults>>
      m == form_parameters(heap, a.parameters.given)
      key == tuplify(m.heap[m.id])
  IN  IF a.cached THEN [heap |-> m.heap, id |-> m.id, key |-> key, exc |-> ""]
      ELSE LET pp == preprocess_parameters(m.heap, m.id, a.in_place)
               n == IF a.fail_at = 0 THEN Len(a.integrals) ELSE a.fail_at - 1
               r == lower_integrals(pp.heap[pp.id], SubSeq(a.integrals, 1, n), 1)
           IN  [heap |-> [pp.heap EXCEPT ![pp.id] = r.parameters], id |-> m.id,
                key |-> key,
                exc |-> IF a.fail_at = 0 THEN "" ELSE "GeneratorError"]

DefaultDicts ==
  {default_parameters_form_compiler,
   << <<"scalar_type", "double">>, <<"mode", "vanilla">>, <<"quadrature_degree", "auto">> >>}
CallerDicts ==
  {NoParameters, Given(<<>>), Given(<< <<"mode", "vanilla">> >>),
   Given(<< <<"quadrature_degree", "2">>, <<"mode", "spectral">> >>)}
DictArgs ==
  {a \in [defaults : DefaultDicts, parameters : CallerDicts, cached : BOOLEAN,
          in_place : BOOLEAN,
          integrals : UNION { [1..n -> [metadata : Metadata,
                                        subspace_tuple : {<<NoSubspace>>}]] :
                              n \in 1..MaxIntegrals },
          fail_at : 0..MaxIntegrals] :
     /\ a.fail_at <= Len(a.integrals)
     /\ a.cached => (a.fail_at = 0 /\ ~a.in_place /\ Len(a.integrals) = 1) }
compile_form_dicts_call ==
  /\ kin # <<>> /\ kout = <<>>
  /\ kout' = <<compile_form_dicts(kin[1])>>
  /\ UNCHANGED <<cachevars, kin, fobj, kcache, fhist, extops>>
InitDicts ==
  /\ InitOver(<<>>, {})
  /\ \E a \in DictArgs : kin = <<a>>
  /\ kout = <<>>
  /\ fobj = {} /\ kcache = {} /\ fhist = <<>> /\ extops = <<>>
SpecDicts == InitDicts /\ [][compile_form_dicts_call]_vars

(***************************************************************************)
(* compile_form: the names of the kernels of two sub-forms of one call.    *)
(* A Python string is kept as the sequence of the pieces it was built      *)
(* from; join gives the string the pieces spell.                           *)
(***************************************************************************)
MaxIndex == 11
RECURSIVE join(_)
join(pieces) == IF pieces = <<>> THEN "" ELSE Head(pieces) \o join(Tail(pieces))
\* the prefixes and the kernel names of the sub-forms with the indices idxs
subform_names(name, idxs, integral_type, subdomain_id) ==
  [k \in DOMAIN idxs |->
     [idx |-> idxs[k],
      prefix |-> join(prefix_of(name, idxs[k])),
      kernel |-> join(kernel_name_of(prefix_of(name, idxs[k]), integral_type, subdomain_id))]]
\* two blocks of a form with nargs arguments over a mixed space
BlockPairs ==
  UNION { {idxs \in [1..2 -> [1..nargs -> 0..MaxIndex]] : idxs[1] # idxs[2]} :
          nargs \in 1..2 }
PrefixArgs ==
  [name : {"form", "a1"}, idxs : BlockPairs, integral_type : {"cell"},
   subdomain_id : {Otherwise, SubdomainInt(1)}]
subform_names_call ==
  /\ kin # <<>> /\ kout = <<>>
  /\ kout' = <<subform_names(kin[1].name, kin[1].idxs, kin[1].integral_type,
                             kin[1].subdomain_id)>>
  /\ UNCHANGED <<cachevars, kin, fobj, kcache, fhist, extops>>
InitPrefix ==
  /\ InitOver(<<>>, {})
  /\ \E a \in PrefixArgs : kin = <<a>>
  /\ kout = <<>>
  /\ fobj = {} /\ kcache = {} /\ fhist = <<>> /\ extops = <<>>
SpecPrefix == InitPrefix /\ [][subform_names_call]_vars

(***************************************************************************)
(* AbstractExternalOperator: the operators and the dict of derivative      *)
(* variants their master keeps.  extops[id] is the operator with identity  *)
(* id: its derivatives, the identity of its _extop_master, its             *)
(* coefficient_dict as the sequence of (multi-index, operator) items in    *)
(* insertion order, and the call that made it.  The operators have two     *)
(* operands.  derivatives=None is the empty multi-index.                   *)
(***************************************************************************)
MaxOps == 4
NoDerivatives == <<>>
Derivatives == {<<0, 0>>, <<1, 0>>, <<0, 1>>}
\* (0,)*len(operands)
zero_derivatives(deriv) == [i \in DOMAIN deriv |-> 0]
\* ExternalOperator.__init__ of ufl, called at the head of __init__: a new
\* operator has the derivatives it was given, is its own master and has an
\* empty coefficient_dict
ExternalOperator_init(ops, derivatives, made) ==
  Append(ops, [derivatives |-> derivatives, master |-> Len(ops) + 1, dict |-> <<>>,
               made |-> made])
\* the first value of the dict whose derivatives are deriv; 0 when none is
first_with(ops, dict, deriv) ==
  LET hits == SelectSeq(dict, LAMBDA kv : ops[kv[2]].derivatives = deriv)
  IN  IF hits = <<>> THEN 0 ELSE hits[1][2]
\* the operator built by self, and the master and the entry it gets
reconstruct_op(ops, self, deriv, made) ==
  LET new == Len(ops) + 1
      built == ExternalOperator_init(ops, deriv, made)
      m == ops[self].master
  IN  IF deriv # ops[self].derivatives
      THEN [ops |-> [built EXCEPT ![m].dict = dict_set(@, deriv, new), ![new].master = m],
            result |-> new]
      ELSE IF deriv # zero_derivatives(deriv)
      THEN [ops |-> [built EXCEPT ![new].master = m], result |-> new]
      ELSE [ops |-> built, result |-> new]
\* a reconstruction that never looks into the master's dict
ufl_expr_reconstruct_no_lookup(ops, self, derivatives, made) ==
  reconstruct_op(ops, self,
                 IF derivatives = NoDerivatives THEN ops[self].derivatives ELSE derivatives,
                 made)
\* _ufl_expr_reconstruct_: a derivative the master holds is reconstructed
\* by the operator held, with its own multi-index
ufl_expr_reconstruct(ops, self, derivatives, made) ==
  LET deriv == IF derivatives = NoDerivatives THEN ops[self].derivatives ELSE derivatives
      ext == first_with(ops, ops[ops[self].master].dict, deriv)
  IN  IF deriv # ops[self].derivatives /\ ext # 0
      THEN reconstruct_op(ops, ext, deriv, made)
      ELSE reconstruct_op(ops, self, deriv, made)
RECURSIVE reconstruct_all(_, _, _, _, _)
reconstruct_all(ops, self, derivatives, made, v) ==
  IF derivatives = <<>> THEN [ops |-> ops, v |-> v]
  ELSE LET r == ufl_expr_reconstruct(ops, self, Head(derivatives), made)
       IN  reconstruct_all(r.ops, self, Tail(derivatives), made, Append(v, r.result))
add_dependencies(ops, self, derivatives, made) ==
  LET r == reconstruct_all(ops, self, derivatives, made, <<>>)
      m == r.ops[self].master
  IN  [r.ops EXCEPT ![m].dict =
         dict_update(@, [i \in DOMAIN r.v |-> <<r.ops[r.v[i]].derivatives, r.v[i]>>])]

DerivativeLists ==
  UNION { [1..n -> Derivatives \cup {NoDerivatives}] : n \in 1..2 }
reconstruct_call(self, d) ==
  /\ self \in DOMAIN extops
  /\ Len(extops) < MaxOps
  /\ extops' = ufl_expr_reconstruct(extops, self, d,
                 [by |-> "reconstruct", self |-> self, derivatives |-> d]).ops
  /\ UNCHANGED <<cachevars, kin, kout, fobj, kcache, fhist>>
add_dependencies_call(self, ds) ==
  /\ self \in DOMAIN extops
  /\ Len(extops) + Len(ds) <= MaxOps
  /\ extops' = add_dependencies(extops, self, ds,
                 [by |-> "add_dependencies", self |-> self, derivatives |-> ds])
  /\ UNCHANGED <<cachevars, kin, kout, fobj, kcache, fhist>>
\* copy(): an operator of the same type built from the operands and the
\* derivatives of self; nothing ties it to the master of self
copy_call(self) ==
  /\ self \in DOMAIN extops
  /\ Len(extops) < MaxOps
  /\ extops' = ExternalOperator_init(extops, extops[self].derivatives,
                 [by |-> "copy", self |-> self, derivatives |-> NoDerivatives])
  /\ UNCHANGED <<cachevars, kin, kout, fobj, kcache, fhist>>
InitExtop ==
  /\ InitOver(<<>>, {})
  /\ kin = <<>> /\ kout = <<>>
  /\ fobj = {} /\ kcache = {} /\ fhist = <<>>
  /\ \E d \in Derivatives :
       extops = ExternalOperator_init(<<>>, d, [by |-> "init", self |-> 0,
                                                derivatives |-> NoDerivatives])
NextExtop ==
  \/ \E self \in 1..MaxOps : \E d \in Derivatives \cup {NoDerivatives} :
       reconstruct_call(self, d)
  \/ \E self \in 1..MaxOps : \E ds \in DerivativeLists : add_dependencies_call(self, ds)
  \/ \E self \in 1..MaxOps : copy_call(self)
SpecExtop == InitExtop /\ [][NextExtop]_vars

(***************************************************************************)
(* Properties.                                                             *)
(***************************************************************************)
Raises(d) == \E b \in 1..Len(Batches(d)) : Batches(d)[b].out = "raise"
Expected(d) == KernelInfos(d, compile_local_form(d).kernels)
Bundle(d) ==
  [fmt |-> "gzip", data |-> pickle_dump([kernels |-> Expected(d), key |-> [digest |-> d]])]
\* p has returned from its n-th compile_form call on c
Done(p, c, n) == pos[<<p, c>>] > n \/ (pos[<<p, c>>] = n /\ cur[p].comm # c)
AllDone(c, n) == \A p \in MemberSet(c) : Done(p, c, n)
RECURSIVE SumRuns(_, _, _)
SumRuns(c, d, i) ==
  IF i > Len(Members(c)) THEN 0
  ELSE runs[<< <<Members(c)[i], c>>, d >>] + SumRuns(c, d, i + 1)
\* the root of c has renamed the file of d and the barrier after it is not complete
PublishPending(c, d) == pub[<<c, d>>].n # 0 /\ ~pub[<<c, d>>].done
\* p and q are in the same TSFCKernel request of the same call on c
SameRequest(p, q, c) ==
  /\ cur[p].comm = c /\ cur[q].comm = c
  /\ pos[<<p, c>>] = pos[<<q, c>>]
  /\ cur[p].i = cur[q].i
MissPath == {"miss", "store", "mkshard", "open", "write", "rename", "barrier", "wait", "stored"}
LookupErrors == {"EOFError", "OSError", "UnpicklingError"}
Contains(F, d) == \E i \in 1..Len(split_form(F)) : split_form(F)[i].key = d

(* C1: on every process, compile_local_form runs at most once for a digest *)
(* and a communicator (for a digest the generator can lower), and every    *)
(* request a process makes for a digest in a later call than the one in    *)
(* which its communicator published the digest ends in a hit without       *)
(* another run of compile_local_form.                                      *)
C1_LaterRequestHits ==
  \A p \in Procs :
    ( /\ pc[p] = "lookup"
      /\ pub[<<cur[p].comm, Key(p)>>].n # 0
      /\ pos[<<p, cur[p].comm>>] > pub[<<cur[p].comm, Key(p)>>].n
      /\ pc'[p] # "lookup" )
    => (pc'[p] = "hit" /\ runs' = runs)

C1_AtMostOnce ==
  /\ [](\A x \in PG, d \in Digests : ~Raises(d) => runs[<<x, d>>] <= 1)
  /\ [][C1_LaterRequestHits]_vars

C1_Witness ==
  \E p \in Procs :
    /\ pc[p] = "hit"
    /\ pub[<<cur[p].comm, Key(p)>>].n # 0
    /\ pos[<<p, cur[p].comm>>] > pub[<<cur[p].comm, Key(p)>>].n
    /\ runs[<< <<p, cur[p].comm>>, Key(p) >>] = 1

(* C2 as stated: once the N processes of a communicator have returned from *)
(* the request that published a digest, one lowering pass has run in total *)
(* for the communicator and the N processes hold equal kernels.            *)
C2_OnePassInTotal ==
  \A c \in Comms, d \in Digests :
    (pub[<<c, d>>].n # 0 /\ AllDone(c, pub[<<c, d>>].n)) =>
      /\ SumRuns(c, d, 1) = 1
      /\ \A p, q \in MemberSet(c) :
           MemGet(mem[p], MemKeyStore(d, c)).kernels = MemGet(mem[q], MemKeyStore(d, c)).kernels

(* C2 as amended: once the N processes of a communicator have returned     *)
(* from the request that published a digest, each of them has run exactly  *)
(* one lowering pass for it (N in total), they hold equal kernels for the  *)
(* digest, and those that returned from the same call returned the same.   *)
C2_OnePassEach ==
  \A c \in Comms, d \in Digests :
    (pub[<<c, d>>].n # 0 /\ AllDone(c, pub[<<c, d>>].n)) =>
      /\ \A p \in MemberSet(c) : runs[<< <<p, c>>, d >>] = 1
      /\ \A p, q \in MemberSet(c) :
           /\ MemGet(mem[p], MemKeyStore(d, c)).kernels = Expected(d)
           /\ MemGet(mem[p], MemKeyStore(d, c)).kernels = MemGet(mem[q], MemKeyStore(d, c)).kernels
           /\ ret[<<p, c>>].n = ret[<<q, c>>].n => ret[<<p, c>>] = ret[<<q, c>>]

C2_Witness ==
  /\ pub[<<COMM_WORLD, dB>>].n # 0
  /\ AllDone(COMM_WORLD, pub[<<COMM_WORLD, dB>>].n)
  /\ SumRuns(COMM_WORLD, dB, 1) = 3

(* C3 as stated: no process obtains a hit for a digest while the barrier   *)
(* of a communicator that published the digest is not complete.            *)
C3_NoHitBeforeAnyBarrier ==
  \A p \in Procs : pc[p] = "hit" => \A c \in Comms : ~PublishPending(c, Key(p))

(* C3 as amended: no process obtains a hit for a digest, in a request on   *)
(* a communicator, while the barrier of that communicator's own publish of *)
(* the digest is not complete, and the members of a communicator that are  *)
(* in the same request all hit or all miss.                                *)
C3_NoHitBeforeOwnBarrier ==
  \A p \in Procs :
    pc[p] = "hit" =>
      /\ ~PublishPending(cur[p].comm, Key(p))
      /\ \A q \in MemberSet(cur[p].comm) :
           SameRequest(p, q, cur[p].comm) => pc[q] \notin MissPath

C3_Witness ==
  \E p \in Procs, q \in Procs :
    /\ p # q
    /\ pc[p] = "hit" /\ pc[q] = "hit"
    /\ SameRequest(p, q, cur[p].comm)
    /\ pub[<<cur[p].comm, Key(p)>>].done

(* C4: a lookup that goes to disk ends, on every process, in the cache     *)
(* miss or in a hit; the members of a communicator that are in the same    *)
(* request all miss or all hit with equal kernels, the entry of the digest *)
(* being in the table of each; and only the root has read the file.        *)
C4_SameOutcome ==
  /\ \A x \in PG : ret[x].exc \notin LookupErrors
  /\ \A p \in Procs :
       pc[p] = "hit" =>
         /\ MemKeyLoad(Key(p), cur[p].comm) \in DOMAIN mem[p]
         /\ \A q \in MemberSet(cur[p].comm) :
              SameRequest(p, q, cur[p].comm) =>
                /\ pc[q] \notin MissPath
                /\ pc[q] = "hit" => cur[q].obj.kernels = cur[p].obj.kernels
  /\ \A x \in fstouch : rank(x[1], x[2]) = 0

(* C5: the final path of a digest is absent or holds the complete bundle   *)
(* of one writer; every other file is the temporary file of a root that is *)
(* writing it, in the shard directory of its final path.                   *)
C5_AtomicPublish ==
  \A path \in DOMAIN files :
    IF path.tmp = 0
    THEN \E d \in Digests : path = filepath(d) /\ files[path] = Bundle(d)
    ELSE \E p \in Procs :
           /\ pc[p] \in {"write", "rename"}
           /\ path = tempfile(Key(p), getpid(p))
           /\ path.shard = filepath(Key(p)).shard
           /\ path.shard \in dirs
           /\ pc[p] = "rename" => files[path] = Bundle(Key(p))

C5_Witness ==
  \E p \in Procs :
    /\ pc[p] = "rename"
    /\ filepath(Key(p)) \in DOMAIN files
    /\ tempfile(Key(p), getpid(p)) \in DOMAIN files

(* C6: for a digest whose lowering the generator fails, nothing is ever    *)
(* published: no file, no in-memory entry, no per-form cache entry of a    *)
(* form holding it, and every call on such a form raises the generator's   *)
(* error.                                                                  *)
C6_NoPublishOnError ==
  \A d \in Digests :
    Raises(d) =>
      /\ \A path \in DOMAIN files : path.shard \o path.name # d
      /\ \A p \in Procs : \A k \in DOMAIN mem[p] : k.digest # d
      /\ \A x \in PG, F \in Forms : Contains(F, d) => ~fcache[<<x, F>>].set
      /\ \A x \in PG :
           (ret[x].n # 0 /\ Contains(calls[x[2]][ret[x].n].form, d)) =>
             ret[x] = [exc |-> "GeneratorError", n |-> ret[x].n, kernels |-> <<>>]

C6_Witness ==
  \E x \in PG :
    /\ ret[x].exc = "GeneratorError"
    /\ runs[<<x, dE>>] = 2
    /\ filepath(dB) \in DOMAIN files

(* C7: a root's lookup over a file that cannot be read or deserialized     *)
(* ends in the cache miss and broadcasts the absence to the other members. *)
FileCorrupt(path) ==
  /\ path \in DOMAIN files
  /\ \/ gzip_read(files[path]).exc # "none"
     \/ pickle_loads(gzip_read(files[path]).data).exc # "none"

C7_CorruptStep ==
  \A p \in Procs :
    ( /\ pc[p] = "lookup"
      /\ rank(p, cur[p].comm) = 0
      /\ FileCorrupt(read_filepath(Key(p)))
      /\ pc'[p] # "lookup" )
    => /\ pc'[p] = "miss"
       /\ \A q \in MemberSet(cur[p].comm) \ {p} :
            chan'[<<q, cur[p].comm>>] = Append(chan[<<q, cur[p].comm>>], NoneVal)

C7_CorruptIsAbsence == [][C7_CorruptStep]_vars

(* C8: every file-system call is made by the rank 0 of the communicator    *)
(* the call is made for.                                                   *)
C8_RootOnly == \A x \in fstouch : rank(x[1], x[2]) = 0

C8_Witness ==
  /\ fstouch = {<<1, COMM_WORLD>>, <<3, COMM_SUB>>}
  /\ files = <<>> /\ dirs = {CacheRoot}
  /\ mem[2] # <<>>
  /\ runs[<< <<3, COMM_WORLD>>, dA >>] = 1

(* C9: a process that has returned from _cache_store finds the file of the *)
(* digest renamed into place by the root in this very call.                *)
C9_BarrierAfterPublish ==
  \A p \in Procs :
    pc[p] = "stored" =>
      /\ pub[<<cur[p].comm, Key(p)>>].n = pos[<<p, cur[p].comm>>]
      /\ filepath(Key(p)) \in DOMAIN files
      /\ files[filepath(Key(p))] = Bundle(Key(p))

C9_Witness ==
  \E p \in Procs :
    /\ pc[p] = "stored"
    /\ rank(p, cur[p].comm) # 0
    /\ pc[Root(cur[p].comm)] = "wait"

(* C10: a lookup that hits returns the kernels that were stored for the    *)
(* digest, also after the table was emptied, and every final file lies in  *)
(* the shard directory named by the first two characters of the digest it  *)
(* holds, under the remaining characters as its name.                      *)
C10_RoundTrip ==
  /\ \A p \in Procs :
       pc[p] = "hit" =>
         /\ cur[p].obj.kernels = Expected(Key(p))
         /\ cur[p].obj.key.digest = Key(p)
  /\ \A path \in DOMAIN files :
       path.tmp = 0 =>
         LET r == pickle_loads(gzip_read(files[path]).data) IN
         /\ r.exc = "none"
         /\ path.shard = SubSeq(r.obj.key.digest, 1, 2)
         /\ path.name = SubSeq(r.obj.key.digest, 3, Len(r.obj.key.digest))
         /\ path = read_filepath(r.obj.key.digest)

C10_Witness ==
  \E p \in Procs :
    /\ pc[p] = "hit"
    /\ rank(p, cur[p].comm) # 0
    /\ runs[<< <<p, cur[p].comm>>, Key(p) >>] = 1
    /\ cur[p].obj = [kernels |-> Expected(Key(p)), key |-> [digest |-> Key(p)]]

(* C13: the group id is not an input of the digest.  Two processes that    *)
(* build the TSFCKernel of the same sub-form on two communicators hold the *)
(* same digest and two different group ids; and a call that the members of *)
(* a communicator have all joined is brought to its end, on every member,  *)
(* by the steps the members take on that communicator alone.               *)
StepOn(p, c) ==
  /\ cur[p].comm = c
  /\ \/ cache_lookup(p) \/ TSFCKernel_init(p) \/ cache_store(p)
     \/ store_makedirs(p) \/ store_open(p) \/ store_dump(p) \/ store_rename(p)
     \/ barrier_enter(p) \/ barrier_leave(p) \/ collect_kernels(p)
GroupFair(c) == \A p \in MemberSet(c) : WF_vars(StepOn(p, c))
\* a member of c is still in a call on c that every member of c has joined
InJoinedCall(c) ==
  \E p \in MemberSet(c) :
    cur[p].comm = c /\ \A q \in MemberSet(c) : pos[<<q, c>>] >= pos[<<p, c>>]

C13_SameDigestOtherGroup ==
  \A p \in Procs, q \in Procs :
    ( /\ pc[p] = "store" /\ pc[q] = "store"
      /\ cur[p].comm # cur[q].comm
      /\ cur[p].form = cur[q].form /\ cur[p].i = cur[q].i )
    => /\ cur[p].obj.key.digest = cur[q].obj.key.digest
       /\ cur[p].obj.key.comm # cur[q].obj.key.comm
       /\ cur[p].obj.key.comm # py2f(COMM_NULL)

C13_GroupIndependent ==
  /\ []C13_SameDigestOtherGroup
  /\ \A c \in Comms :
       GroupFair(c) => (InJoinedCall(c) ~> ~InJoinedCall(c))

C13_Witness ==
  /\ pc[1] = "store" /\ pc[3] = "store"
  /\ cur[1].comm = COMM_WORLD /\ cur[3].comm = COMM_SUB
  /\ cur[1].form = cur[3].form
  /\ pc[2] = "idle" /\ pos[<<2, COMM_WORLD>>] = 0

(* C14: a clear_cache made while no call is under way leaves the cache     *)
(* root in place and nothing below it; no final file is on disk that was   *)
(* not published since; and a lookup of a digest that the process holds in *)
(* its table and that nobody published since the clear ends in the miss.   *)
ClearStep ==
  /\ Quiescent
  /\ pos' = pos
  /\ <<files, dirs, fstouch, pub>>' # <<files, dirs, fstouch, pub>>

NotPublishedSince(d) == \A c \in Comms : pub[<<c, d>>].n = 0

C14_Step ==
  /\ ClearStep => (files' = <<>> /\ dirs' = {CacheRoot})
  /\ \A p \in Procs :
       ( /\ pc[p] = "lookup"
         /\ pc'[p] # "lookup"
         /\ MemKeyStore(Key(p), cur[p].comm) \in DOMAIN mem[p]
         /\ NotPublishedSince(Key(p)) )
       => pc'[p] = "miss"

C14_MissAfterClear ==
  /\ [](\A path \in DOMAIN files :
          path.tmp = 0 => ~NotPublishedSince(path.shard \o path.name))
  /\ [][C14_Step]_vars

C14_Witness ==
  \E p \in Procs :
    /\ pc[p] = "miss"
    /\ rank(p, cur[p].comm) # 0
    /\ MemKeyStore(Key(p), cur[p].comm) \in DOMAIN mem[p]
    /\ NotPublishedSince(Key(p))
    /\ files = <<>> /\ dirs = {CacheRoot}

(* C15: without clear_cache, no step removes an entry of the in-memory     *)
(* table of a process or changes the kernels it holds, and no step removes *)
(* a final file or changes its content.                                    *)
C15_Step ==
  /\ \A p \in Procs : \A k \in DOMAIN mem[p] :
       k \in DOMAIN mem'[p] /\ mem'[p][k].kernels = mem[p][k].kernels
  /\ \A path \in DOMAIN files :
       path.tmp = 0 => (path \in DOMAIN files' /\ files'[path] = files[path])

C15_NeverEvicted == [][C15_Step]_vars

C15_Witness ==
  /\ pc[3] = "barrier" /\ cur[3].comm = COMM_WORLD /\ Key(3) = dA
  /\ ret[<<3, COMM_SUB>>].n = 1 /\ ret[<<3, COMM_SUB>>].exc = "none"
  /\ runs[<< <<3, COMM_SUB>>, dA >>] = 0
  /\ runs[<< <<3, COMM_WORLD>>, dA >>] = 1
  /\ MemKeyStore(dA, COMM_WORLD) \in DOMAIN mem[3]
  /\ filepath(dA) \in DOMAIN files

(* C11 and C12 are about two calls of _cache_key. *)
Items(d) == {d[i] : i \in 1..Len(d)}
Differ(a, b, f) ==
  IF f = "parameters" THEN Items(a.parameters) # Items(b.parameters) ELSE a[f] # b[f]
DiffFields(a, b) == {f \in DOMAIN a : Differ(a, b, f)}
SensitiveFields ==
  {"parameters", "number_map", "subspace_number_map", "interface", "coffee", "idx", "diagonal"}

(* C11: two argument lists that differ in exactly one of parameters,       *)
(* coefficient map, subspace map, interface, coffee flag, split index and  *)
(* diagonal flag get two different digests.                                *)
C11_KeySensitive ==
  kout # <<>> =>
    ((\E f \in SensitiveFields : DiffFields(kin[1], kin[2]) = {f})
       => kout[1].digest # kout[2].digest)

(* C12: two argument lists with the same signature and the same values,    *)
(* whatever the identity of the form object and the insertion order of the *)
(* parameter dict, get the same digest.                                    *)
C12_KeyDeterministic ==
  kout # <<>> =>
    (DiffFields(kin[1], kin[2]) \subseteq {"oid"} => kout[1].digest = kout[2].digest)

C12_Witness ==
  /\ kout # <<>>
  /\ kin[1].parameters # kin[2].parameters
  /\ Items(kin[1].parameters) = Items(kin[2].parameters)
  /\ kout[1] = kout[2]

(***************************************************************************)
(* Properties of compile_form as a function of its arguments (SpecFront).  *)
(***************************************************************************)
FrontCalls == DOMAIN fhist
Returned(i) == fhist[i].exc = ""
\* call i made its tuple itself (it did not find one on the form)
MadeTuple(i) == Returned(i) /\ fhist[i].tup.id = i
IterableOf(i) == iterable_of(fhist[i].a.obj, fhist[i].a.split, fhist[i].a.diagonal)
\* the parameters in force: the user's value of a name, else the default
InForce(parameters) ==
  {<<k, v>> \in {"mode", "scalar_type"} \X {"spectral", "vanilla", "double"} :
     \/ \E n \in DOMAIN parameters.items : parameters.items[n] = <<k, v>>
     \/ /\ \A n \in DOMAIN parameters.items : parameters.items[n][1] # k
        /\ \E n \in DOMAIN default_parameters_form_compiler :
             default_parameters_form_compiler[n] = <<k, v>>}
SameFormKey(a, b) ==
  /\ a.obj.o = b.obj.o /\ a.name = b.name /\ InForce(a.parameters) = InForce(b.parameters)
  /\ a.split = b.split /\ a.diagonal = b.diagonal

\* C16: a call on a form instance whose name, parameters in force, split
\* flag and diagonal flag equal those of an earlier call that returned gets
\* the very same tuple object, lowers nothing and looks nothing up in the
\* TSFCKernel cache; a call that differs in one of these does not get the
\* earlier call's tuple object.
C16_PerFormCache ==
  \A i, j \in FrontCalls :
    (i < j /\ fhist[i].a.obj.isform /\ Returned(i)) =>
      IF SameFormKey(fhist[i].a, fhist[j].a)
      THEN /\ Returned(j) /\ fhist[j].tup = fhist[i].tup
           /\ fhist[j].built = <<>> /\ fhist[j].nlookup = 0
      ELSE fhist[j].tup.id # fhist[i].tup.id
C16_Witness ==
  /\ Len(fhist) = 2 /\ MadeTuple(1) /\ fhist[1].built # <<>>
  /\ fhist[2].a = fhist[1].a
  /\ fhist[2].tup.id = 1 /\ fhist[2].built = <<>> /\ fhist[2].nlookup = 0

\* the kernels before those of the s-th sub-form
RECURSIVE KernelsBefore(_, _)
KernelsBefore(it, s) ==
  IF s = 1 THEN 0 ELSE KernelsBefore(it, s - 1) + Len(it[s - 1].f.integrals)

\* C17: the tuple returned lists the kernels sub-form by sub-form in split
\* order and integral by integral within a sub-form; each carries the index
\* tuple of its sub-form, and coefficient_map[n] (subspace_map[n]) is the
\* number in the whole form of the coefficient (subspace) that has the n-th
\* local number the kernel uses.
C17_ResultAssembly ==
  \A i \in FrontCalls : Returned(i) =>
    LET it == IterableOf(i)
        whole == fhist[i].a.obj.form
        K == fhist[i].tup.kernels
    IN  /\ Len(K) = KernelsBefore(it, Len(it) + 1)
        /\ \A s \in DOMAIN it : \A b \in DOMAIN it[s].f.integrals :
             LET k == K[KernelsBefore(it, s) + b]
                 int == it[s].f.integrals[b]
             IN  /\ k.indices = it[s].idx
                 /\ k.kinfo.integral_type = int.itype
                 /\ DOMAIN k.kinfo.coefficient_map = DOMAIN int.coefs
                 /\ \A n \in DOMAIN int.coefs :
                      whole.coefs[k.kinfo.coefficient_map[n] + 1] = it[s].f.coefs[int.coefs[n] + 1]
                 /\ DOMAIN k.kinfo.subspace_map = DOMAIN int.subs
                 /\ \A n \in DOMAIN int.subs :
                      whole.subs[k.kinfo.subspace_map[n] + 1] = it[s].f.subs[int.subs[n] + 1]
C17_Witness ==
  \E i \in FrontCalls :
    /\ MadeTuple(i) /\ fhist[i].a.obj.form = BW /\ fhist[i].a.split /\ ~fhist[i].a.diagonal
    /\ Len(fhist[i].tup.kernels) = 3
    /\ fhist[i].tup.kernels[2].indices = <<1, 1>>
    /\ fhist[i].tup.kernels[2].kinfo.coefficient_map = <<2, 0>>
    /\ fhist[i].tup.kernels[2].kinfo.subspace_map = <<1>>

\* what the mangling is to make of the n-th operand of the form g
MangledOp(g, n) ==
  IF IsReal(g.ops[n]) THEN One
  ELSE IF n = 2 /\ IsReal(g.ops[1]) THEN [g.ops[n] EXCEPT !.number = 0]
  ELSE g.ops[n]
NoRealArgument(f) == \A n \in DOMAIN f.ops : f.ops[n].kind = "arg" => ~IsReal(f.ops[n])

\* C18: the form a key is derived from, and the form lowered, is the
\* sub-form with every Real argument replaced by the literal 1 and a
\* non-Real trial argument made a test argument on its space exactly when
\* the test argument is Real; it has no Real argument, and is the sub-form
\* itself when that has no Real argument.
C18_RealMangled ==
  \A i \in FrontCalls : MadeTuple(i) =>
    LET it == IterableOf(i)
    IN  /\ DOMAIN fhist[i].keyed = DOMAIN it
        /\ \A s \in DOMAIN it :
             LET g == it[s].f
                 f == fhist[i].keyed[s]
             IN  /\ f = [g EXCEPT !.ops = [n \in DOMAIN g.ops |-> MangledOp(g, n)]]
                 /\ NoRealArgument(f)
                 /\ NoRealArgument(g) => f = g
        /\ \A b \in DOMAIN fhist[i].built :
             \E s \in DOMAIN it : fhist[i].built[b].f = fhist[i].keyed[s]
C18_Witness ==
  \E i \in FrontCalls :
    /\ MadeTuple(i) /\ fhist[i].a.obj.form = B("R", "V")
    /\ fhist[i].built # <<>>
    /\ fhist[i].built[1].f.ops = <<One, Arg(0, "V")>>

Contradicts(interface, coffee) ==
  \/ coffee /\ interface = LoopyBuilder
  \/ ~coffee /\ interface = CoffeeBuilder

\* C19: a call on a form with no interface, or with an interface that
\* contradicts the coffee flag, is rejected: it ends in an error, returns no
\* kernels and builds none. compile_local_form makes no such check, so
\* the calls of this kind return kernels and this invariant is violated.
C19_InterfaceRejected ==
  \A i \in FrontCalls :
    (fhist[i].a.obj.isform
     /\ (fhist[i].a.interface = NoInterface
         \/ Contradicts(fhist[i].a.interface, fhist[i].a.coffee)))
    => (~MadeTuple(i) /\ fhist[i].built = <<>>)

C20_Step ==
  (Len(fhist') = Len(fhist) + 1 /\ ~fhist'[Len(fhist')].a.obj.isform)
  => UNCHANGED <<fobj, kcache, cachevars>>
C20_Rejected ==
  /\ \A i \in FrontCalls : ~fhist[i].a.obj.isform =>
       /\ fhist[i].exc = "RuntimeError" /\ fhist[i].tup = NoTuple
       /\ fhist[i].keyed = <<>> /\ fhist[i].built = <<>> /\ fhist[i].nlookup = 0
  /\ \A e \in fobj : \A x \in Objects : x.o = e.o => x.isform

\* C20: a call on an object that is not a Form ends in RuntimeError having
\* derived no key, lowered nothing and looked nothing up; it leaves the
\* caches on the forms, the TSFCKernel cache, the files and the collective
\* channels as they were, and no object that is not a Form has a cache entry.
C20_NonFormRejected == []C20_Rejected /\ [][C20_Step]_vars
C20_Witness ==
  /\ Len(fhist) = 2 /\ MadeTuple(1) /\ kcache # {}
  /\ ~fhist[2].a.obj.isform /\ fhist[2].exc = "RuntimeError"

(***************************************************************************)
(* Properties of the kernel name (SpecName).                               *)
(***************************************************************************)
\* the name as the format string spells it, before any replacement
Formatted(a) ==
  a.prefix \o <<"_", a.integral_type, "_integral_">>
  \o (IF a.subdomain_id.s # "" THEN <<a.subdomain_id.s>>
      ELSE IF a.subdomain_id.n < 0 THEN <<"-", ToString(0 - a.subdomain_id.n)>>
      ELSE <<ToString(a.subdomain_id.n)>>)

\* C21: the name of a kernel is "<prefix>_<integral_type>_integral_<id>"
\* with every "-" replaced by "_"; it holds no "-", whatever the prefix, the
\* integral type and the subdomain id.
C21_NoDashInName ==
  kout # <<>> =>
    /\ DOMAIN kout[1] = DOMAIN Formatted(kin[1])
    /\ \A i \in DOMAIN kout[1] :
         /\ kout[1][i] # "-"
         /\ kout[1][i] = IF Formatted(kin[1])[i] = "-" THEN "_" ELSE Formatted(kin[1])[i]
C21_Witness ==
  /\ kin # <<>> /\ kin[1].prefix = <<"my", "-", "form">> /\ kin[1].subdomain_id = SubdomainInt(-1)
  /\ kout = << <<"my", "_", "form", "_", "cell", "_integral_", "_", "1">> >>

(***************************************************************************)
(* Properties of the in-memory table (Spec).                               *)
(***************************************************************************)
\* p has an entry for d and has made calls on no communicator but c: the
\* entry was stored or loaded under c
HoldsUnder(p, c, d) ==
  /\ \E k \in DOMAIN mem[p] : k.digest = d
  /\ \A c2 \in Comms \ {c} : <<p, c2>> \in PG => pos[<<p, c2>>] = 0
C22_Step ==
  \A p \in Procs :
    (pc[p] = "lookup" /\ pc'[p] # "lookup" /\ HoldsUnder(p, cur[p].comm, Key(p)))
    => (pc'[p] = "hit" /\ chan' = chan /\ fstouch' = fstouch)

\* C22: a lookup of a digest by a process that stored or loaded its entry
\* under the same communicator before is a hit that reads no file and takes
\* part in no broadcast.
C22_MemoryFirst == [][C22_Step]_vars

IsPairKey(k) == DOMAIN k = {"digest", "comm"}
C23_SameKey == \A p \in Procs : \A k \in DOMAIN mem[p] : IsPairKey(k)
C23_OwnGroup ==
  \A p \in Procs :
    (pc[p] = "hit" /\ IsPairKey(cur[p].obj.key)) => cur[p].obj.key.comm = cur[p].comm

\* C23: every key of the in-memory table is the pair (digest, group id), and
\* the object a lookup under a communicator returns is never one that was
\* made under another communicator.
C23_Partitioned == C23_SameKey /\ C23_OwnGroup

(***************************************************************************)
(* The order of the fields in the digest (SpecKey).  The fields are        *)
(* numbered as the claim lists them.                                       *)
(***************************************************************************)
KeyField(a, n) ==
  CASE n = 1 -> <<a.sig>>
    [] n = 2 -> <<a.name>>
    [] n = 3 -> str_items(sorted(a.parameters))
    [] n = 4 -> str_items(sorted(default_parameters_coffee))
    [] n = 5 -> str_dict(a.number_map)
    [] n = 6 -> str_dict(a.subspace_number_map)
    [] n = 7 -> str_type(type_of(a.interface))
    [] n = 8 -> str_bool(a.coffee)
    [] n = 9 -> str_tuple(a.idx)
    [] OTHER -> str_bool(a.diagonal)
RECURSIVE ConcatFields(_, _)
ConcatFields(a, order) ==
  IF order = <<>> THEN <<>> ELSE KeyField(a, Head(order)) \o ConcatFields(a, Tail(order))
HashedInOrder(order) ==
  \A i \in DOMAIN kout : kout[i].digest = ConcatFields(kin[i], order)

\* C24 as claimed: the digest hashes signature, name, parameters, coffee
\* defaults, coefficient map, subspace map, interface type, coffee flag,
\* split index, diagonal flag, in this order.
C24_ClaimedOrder == HashedInOrder(<<1, 2, 3, 4, 5, 6, 7, 8, 9, 10>>)

\* C24, amended: the digest hashes the same fields with the coffee defaults
\* before the parameters: signature, name, coffee defaults, parameters,
\* coefficient map, subspace map, interface type, coffee flag, split index,
\* diagonal flag.
C24_FieldOrder == HashedInOrder(<<1, 2, 4, 3, 5, 6, 7, 8, 9, 10>>)
C24_Witness ==
  /\ kout # <<>>
  /\ kin[1].parameters = << <<"scalar_type", "float">>, <<"mode", "vanilla">> >>
  /\ SubSeq(kout[1].digest, 3, 5) = <<"[", "(", "'">>
  /\ kout[1].digest[6] = "optlevel"

(***************************************************************************)
(* Directory creation and I/O errors in the publish (SpecFault).           *)
(***************************************************************************)
\* the call of p ended in this step with the error exc, nothing published
EndedWith(p, exc) ==
  /\ pc'[p] = "idle"
  /\ ret'[<<p, cur[p].comm>>] = [exc |-> exc, n |-> pos[<<p, cur[p].comm>>], kernels |-> <<>>]
  /\ pub' = pub
  /\ \A d \in Digests : filepath(d) \in DOMAIN files' <=> filepath(d) \in DOMAIN files
C25_Step ==
  \A p \in Procs : pc'[p] # pc[p] =>
    /\ (pc[p] = "store" /\ rank(p, cur[p].comm) = 0) =>
         (pc'[p] = "mkshard" /\ CacheRoot \in dirs' /\ dirs \subseteq dirs')
    /\ pc[p] = "mkshard" =>
         \/ pc'[p] = "open" /\ shard_of(Key(p)) \in dirs' /\ dirs \subseteq dirs'
         \/ EndedWith(p, "OSError")
    /\ pc[p] \in {"open", "write", "rename"} =>
         \/ pc'[p] \in {"write", "rename", "barrier"}
         \/ EndedWith(p, "OSError")
    /\ (pc[p] = "rename" /\ pc'[p] = "barrier") => filepath(Key(p)) \in DOMAIN files'

\* C25: creating the cache root or a shard directory that exists already is
\* no error: no call ever ends in FileExistsError, the creating process goes
\* on to write and rename its file, also when another root created the same
\* directory at the same time; an I/O error of a publish step ends the call
\* of the root with that error, with nothing published.
C25_IdempotentDirs ==
  /\ [](\A x \in PG : ret[x].exc # "FileExistsError")
  /\ [][C25_Step]_vars
C25_Witness ==
  /\ pc[1] = "open" /\ pc[3] = "open"
  /\ cur[1].comm = COMM_WORLD /\ cur[3].comm = COMM_SUB
  /\ shard_of(Key(1)) = shard_of(Key(3))
  /\ ret[<<1, COMM_WORLD>>].exc = "OSError"

(***************************************************************************)
(* The kernels of a sub-form (Spec).                                       *)
(***************************************************************************)
\* the batches for which the generator returns a kernel, in batch order
KernelBatches(d) == SelectSeq(Batches(d), LAMBDA x : x.out = "kernel")

\* C26: the kernels TSFCKernel holds after lowering a sub-form are those of
\* the batches for which the generator returned a kernel, one each and in
\* batch order; a batch without kernel leaves no entry, so there are at most
\* as many kernels as batches.
C26_NoneSkipped ==
  \A p \in Procs : pc[p] = "store" =>
    LET K == cur[p].obj.kernels
        KB == KernelBatches(Key(p))
    IN  /\ Len(K) = Len(KB) /\ Len(K) <= Len(Batches(Key(p)))
        /\ \A k \in DOMAIN K :
             /\ K[k].kernel # None
             /\ K[k].integral_type = KB[k].itype
             /\ Len(K[k].coefficient_map) = Len(KB[k].coeffs)
C26_Witness ==
  \E p \in Procs :
    /\ pc[p] = "store" /\ Key(p) = dA
    /\ Len(Batches(dA)) = 2 /\ Len(cur[p].obj.kernels) = 1

(***************************************************************************)
(* Properties of the loop over the integrals of a batch (SpecLower).       *)
(***************************************************************************)
DictItems(d) == {d[n] : n \in DOMAIN d}
DictKeys(d) == {d[n][1] : n \in DOMAIN d}
\* the items of parameters overridden by those of metadata
Overridden(parameters, metadata) ==
  DictItems(metadata) \cup {x \in DictItems(parameters) : x[1] \notin DictKeys(metadata)}

\* C27: every integral is lowered with the batch-wide parameters overridden
\* by its own metadata and by nothing else, each name once; the batch-wide
\* parameters are after the loop what they were before it.
C27_PerIntegralParameters ==
  kout # <<>> =>
    /\ kout[1].parameters = kin[1].parameters
    /\ DOMAIN kout[1].integrals = DOMAIN kin[1].integrals
    /\ \A i \in DOMAIN kin[1].integrals :
         /\ DictItems(kout[1].integrals[i].params)
              = Overridden(kin[1].parameters, kin[1].integrals[i].metadata)
         /\ Len(kout[1].integrals[i].params)
              = Cardinality(DictKeys(kout[1].integrals[i].params))
C27_Witness ==
  /\ kout # <<>> /\ Len(kin[1].integrals) = 2
  /\ kin[1].parameters = default_parameters_form_compiler
  /\ kin[1].integrals[1].metadata = << <<"mode", "vanilla">> >>
  /\ kin[1].integrals[2].metadata = <<>>
  /\ <<"mode", "vanilla">> \in DictItems(kout[1].integrals[1].params)
  /\ <<"mode", "spectral">> \in DictItems(kout[1].integrals[2].params)

\* the contractions applied for the argument slot n of an integral
ArgumentContractions(out, n) ==
  {k \in DOMAIN out.expressions :
     out.expressions[k].kind = "argument" /\ out.expressions[k].summed.slot = n}

\* C28: in every integral, an argument slot is lowered with its dummy
\* multi-index exactly when it has a subspace; a slot lowered with the dummy
\* index gets one contraction, with the transform of its subspace, summing
\* that dummy index, and a slot lowered with the real index gets none.
C28_DummyIndexContracted ==
  kout # <<>> =>
    \A i \in DOMAIN kin[1].integrals : \A n \in 1..kin[1].nargs :
      LET out == kout[1].integrals[i]
          subspace == kin[1].integrals[i].subspace_tuple[n]
      IN  /\ out.multiindices[n] = [slot |-> n, dummy |-> subspace # NoSubspace]
          /\ Cardinality(ArgumentContractions(out, n))
               = IF out.multiindices[n].dummy THEN 1 ELSE 0
          /\ \A k \in ArgumentContractions(out, n) :
               /\ out.expressions[k].mat = subspace
               /\ out.expressions[k].summed = [slot |-> n, dummy |-> TRUE]
C28_Witness ==
  /\ kout # <<>> /\ kin[1].nargs = 2
  /\ kin[1].integrals[1].subspace_tuple = <<"S1", NoSubspace>>
  /\ kout[1].integrals[1].multiindices = <<MultiIndex(1, TRUE), MultiIndex(2, FALSE)>>
  /\ Len(kout[1].integrals[1].expressions) = 1

(***************************************************************************)
(* Collectives the root does not reach (SpecCorrupt, SpecFault).           *)
(***************************************************************************)
AfterLookup == {"hit", "miss", "store", "mkshard", "open", "write", "rename",
                "barrier", "wait", "stored"}
\* the root of c is beyond the stage of sub-form i of call n on c: in one of
\* the stages given, at a later sub-form, or out of the call
RootBeyond(c, n, i, stages) ==
  LET r == Root(c) IN
  \/ pos[<<r, c>>] > n
  \/ /\ pos[<<r, c>>] = n
     /\ \/ cur[r].comm # c
        \/ cur[r].i > i
        \/ cur[r].i = i /\ pc[r] \in stages

\* C29: no member of a communicator is left in a collective its root has
\* gone past: a member waiting for the broadcast of a lookup with nothing
\* sent to it has a root that is still to broadcast, and a member waiting in
\* the barrier of a publish has a root that is still to enter it.
C29_NoOrphanedWait ==
  \A c \in Comms : \A q \in MemberSet(c) \ {Root(c)} :
    cur[q].comm = c =>
      /\ (pc[q] = "lookup" /\ chan[<<q, c>>] = <<>>)
           => ~RootBeyond(c, pos[<<q, c>>], cur[q].i, AfterLookup)
      /\ (pc[q] \in {"barrier", "wait"} /\ bar[<<q, c>>] # "go")
           => ~RootBeyond(c, pos[<<q, c>>], cur[q].i, {"stored"})

(***************************************************************************)
(* The per-form cache and the interface (SpecFront).                       *)
(***************************************************************************)
\* C30: the tuple a call gets was made by a call with the same interface
\* and the same coffee flag.
C30_SameBackendServed ==
  \A i, j \in FrontCalls :
    (Returned(j) /\ fhist[j].tup.id = i) =>
      /\ fhist[i].a.interface = fhist[j].a.interface
      /\ fhist[i].a.coffee = fhist[j].a.coffee

(***************************************************************************)
(* The in-memory table and the store after a failed publish (SpecFault).   *)
(***************************************************************************)
\* some process is between the miss of d and the rename of its file
PublishInProgress(d) ==
  \E q \in Procs :
    /\ pc[q] \in {"miss", "store", "mkshard", "open", "write", "rename"}
    /\ Key(q) = d

\* C31: while no publish of a digest is in progress, every process that
\* holds the digest in its in-memory table finds the complete bundle of the
\* digest at its path of the store: a publish that failed on the root left
\* no in-memory entry behind.
C31_MemoryBackedByDisk ==
  \A p \in Procs : \A k \in DOMAIN mem[p] :
    ~PublishInProgress(k.digest) =>
      /\ filepath(k.digest) \in DOMAIN files
      /\ files[filepath(k.digest)] = Bundle(k.digest)

(***************************************************************************)
(* The dicts around a compile_form call (SpecDicts).                       *)
(***************************************************************************)
\* C32: after a compile_form call, returned from the form's cache, compiled
\* or failed, the global form_compiler defaults and the caller's dict are
\* the objects they were, with the items they had; the dict compile_form
\* worked with is another object, and its key holds the caller's value of
\* every key the caller gave and the default value of every other key.
C32_DictsUntouched ==
  kout # <<>> =>
    LET a == kin[1]
        r == kout[1]
    IN  /\ r.heap[1] = a.defaults
        /\ a.parameters.given => r.heap[2] = a.parameters.items
        /\ r.id > (IF a.parameters.given THEN 2 ELSE 1)
        /\ DictItems(r.key) =
             DictItems(a.parameters.items)
             \cup {kv \in DictItems(a.defaults) : kv[1] \notin DictKeys(a.parameters.items)}

C32_Witness ==
  /\ kout # <<>>
  /\ kin[1].parameters.given
  /\ \E kv \in DictItems(kin[1].parameters.items) :
       kv[1] \in DictKeys(kin[1].defaults) /\ kv \notin DictItems(kin[1].defaults)
  /\ ~kin[1].cached /\ kin[1].in_place
  /\ kout[1].exc = "GeneratorError"
  /\ kout[1].heap[kout[1].id] # kout[1].key

(***************************************************************************)
(* The unsplit form (SpecFront).                                           *)
(***************************************************************************)
\* C33: a call with split=False on a form either fails, and then it is a
\* diagonal call on a form that has not exactly 2 arguments, or returns a
\* tuple every kernel of which carries one tuple of Nones: a single None
\* for a diagonal call, one None per argument of the form otherwise; the
\* call that built the tuple keyed one sub-form, the whole form.
C33_Unsplit ==
  \A i \in FrontCalls :
    LET a == fhist[i].a
        n == Len(SelectSeq(a.obj.form.ops, LAMBDA x : x.kind = "arg"))
        nones == [k \in 1..(IF a.diagonal THEN 1 ELSE n) |-> None]
    IN  (a.obj.isform /\ ~a.split) =>
          /\ fhist[i].exc # "" <=> (a.diagonal /\ n # 2)
          /\ Returned(i) =>
               \A k \in DOMAIN fhist[i].tup.kernels :
                 fhist[i].tup.kernels[k].indices = nones
          /\ MadeTuple(i) => Len(fhist[i].keyed) = 1

C33_Witness ==
  \E i, j \in FrontCalls :
    /\ fhist[i].a.obj.form = BW /\ ~fhist[i].a.split /\ fhist[i].a.diagonal
    /\ MadeTuple(i) /\ fhist[i].tup.kernels # <<>>
    /\ fhist[i].tup.kernels[1].indices = <<None>>
    /\ fhist[j].a.obj.form = L0 /\ ~fhist[j].a.split /\ fhist[j].a.diagonal
    /\ fhist[j].exc = "AssertionError"

(***************************************************************************)
(* clear_cache and the caches kept on the forms (SpecClear).               *)
(***************************************************************************)
\* the step in which x starts the next call of its communicator on the
\* instance of the form F it worked on before
CallsAgain(x, F) ==
  /\ pc[x[1]] = "idle"
  /\ pos'[x] = pos[x] + 1
  /\ calls'[x[2]][pos'[x]] = [form |-> F, new |-> FALSE]

C34_Step ==
  /\ ClearStep =>
       /\ <<fcache, mem, ret, pc, cur, chan, bar, calls, runs>>'
            = <<fcache, mem, ret, pc, cur, chan, bar, calls, runs>>
       /\ \A x \in fstouch' \ fstouch : rank(x[1], x[2]) = 0
  /\ \A x \in PG : \A F \in Forms :
       (CallsAgain(x, F) /\ fcache[<<x, F>>].set) =>
         /\ pc'[x[1]] = "idle"
         /\ ret'[x] = [exc |-> "none", n |-> pos'[x], kernels |-> fcache[<<x, F>>].kernels]
         /\ <<fcache, mem, files, dirs, chan, bar, runs, fstouch>>'
              = <<fcache, mem, files, dirs, chan, bar, runs, fstouch>>

\* C34: a clear changes the store and nothing else, and only when the
\* process that clears is the root of the communicator it clears on: the
\* tuples kept on the forms stay, so a later call on a form instance that
\* holds a tuple returns that tuple at once, with no lookup, no broadcast,
\* no run of the generator and no access to the store.
C34_ClearKeepsFormCaches == [][C34_Step]_vars

\* process 1 got the tuple of its form for the second call of COMM_WORLD,
\* made after the store was cleared of what the first call published
C34_Witness ==
  /\ files = <<>>
  /\ Len(calls[COMM_WORLD]) = 2 /\ ~calls[COMM_WORLD][2].new
  /\ pos[<<2, COMM_WORLD>>] = 1 /\ pc[2] = "idle"
  /\ ret[<<2, COMM_WORLD>>].n = 1 /\ ret[<<2, COMM_WORLD>>].kernels # <<>>
  /\ pos[<<1, COMM_WORLD>>] = 2 /\ pc[1] = "idle"
  /\ ret[<<1, COMM_WORLD>>].n = 2 /\ ret[<<1, COMM_WORLD>>].kernels # <<>>

(***************************************************************************)
(* The kernel names of the blocks of one call (SpecPrefix).                *)
(***************************************************************************)
\* C35: two sub-forms of one call with different index tuples get different
\* prefixes, and their kernels of one integral type and one subdomain id
\* get different names.
C35_DistinctPrefixes ==
  kout # <<>> =>
    /\ kout[1][1].prefix # kout[1][2].prefix
    /\ kout[1][1].kernel # kout[1][2].kernel

(***************************************************************************)
(* The derivative variants a master holds (SpecExtop).                     *)
(***************************************************************************)
DictValues(ops, m) == {ops[m].dict[i][2] : i \in DOMAIN ops[m].dict}
\* every operator held by a dict is held under its own multi-index, and no
\* multi-index is held twice
StoredUnderOwn ==
  \A m \in DOMAIN extops :
    /\ \A i \in DOMAIN extops[m].dict :
         extops[extops[m].dict[i][2]].derivatives = extops[m].dict[i][1]
    /\ \A i, j \in DOMAIN extops[m].dict :
         extops[m].dict[i][1] = extops[m].dict[j][1] => i = j
\* the step is one _ufl_expr_reconstruct_ call, which built the operator new
Reconstructs(new) ==
  /\ Len(extops') = Len(extops) + 1
  /\ new = Len(extops')
  /\ extops'[new].made.by = "reconstruct"
Asked(new) ==
  IF extops'[new].made.derivatives = <<>>
  THEN extops[extops'[new].made.self].derivatives
  ELSE extops'[new].made.derivatives
Held(m, deriv) == \E e \in DictValues(extops, m) : extops[e].derivatives = deriv
OldUnchanged == \A k \in DOMAIN extops : extops'[k] = extops[k]
RegisteredWith(new, m, deriv) ==
  /\ \E i \in DOMAIN extops'[m].dict : extops'[m].dict[i] = <<deriv, new>>
  /\ extops'[new].master = m
  /\ extops'[new].derivatives = deriv
  /\ \A k \in DOMAIN extops : k # m => extops'[k] = extops[k]

C36_ClaimedStep ==
  \A new \in 1..MaxOps :
    Reconstructs(new) =>
      LET self == extops'[new].made.self
          m == extops[self].master
      IN  IF Asked(new) # extops[self].derivatives
          THEN RegisteredWith(new, m, Asked(new))
          ELSE OldUnchanged

\* C36 as stated: every operator of a dict is stored under its own
\* multi-index; a reconstruction with a multi-index other than the
\* receiver's enters the new operator in the dict of the receiver's master
\* and gives it that master; one with the receiver's own multi-index
\* leaves every dict as it was.
C36_EveryDerivativeRegistered == [][StoredUnderOwn' /\ C36_ClaimedStep]_vars

C36_Step ==
  \A new \in 1..MaxOps :
    Reconstructs(new) =>
      LET self == extops'[new].made.self
          m == extops[self].master
      IN  IF Asked(new) # extops[self].derivatives /\ ~Held(m, Asked(new))
          THEN RegisteredWith(new, m, Asked(new))
          ELSE /\ OldUnchanged
               /\ extops'[new].derivatives = Asked(new)

\* C36, amended: every operator of a dict is stored under its own
\* multi-index; a reconstruction with a multi-index other than the
\* receiver's that the master's dict does not hold yet enters the new
\* operator in that dict and gives it that master; one with a multi-index
\* the master's dict already holds, or with the receiver's own, leaves every
\* dict as it was.
C36_Registry == []StoredUnderOwn /\ [][C36_Step]_vars

\* operator 2 was registered as the first derivative of operator 1, and a
\* later reconstruction with the same multi-index built an operator that no
\* dict holds; add_dependencies has replaced an entry as well
C36_Witness ==
  \E new \in DOMAIN extops : \E old \in DOMAIN extops :
    /\ old < new
    /\ extops[new].made.by = "reconstruct"
    /\ extops[new].derivatives = extops[old].derivatives
    /\ extops[new].derivatives # extops[extops[new].made.self].derivatives
    /\ old \in DictValues(extops, extops[extops[new].made.self].master)
    /\ \A m \in DOMAIN extops : new \notin DictValues(extops, m)
    /\ \E k \in DOMAIN extops : extops[k].made.by = "add_dependencies"
====
